---- MODULE Spec2Model ----
(***************************************************************************)
(* Orbital propagator (SatelliteSimulator), the OrbitUtils helpers and the *)
(* SatelliteList component that owns one propagator per satellite.         *)
(*                                                                         *)
(* JavaScript numbers are modelled in fixed point:                         *)
(*   angles, eccentricity, trigonometric values   1 unit = 1e-7   (SCALE)  *)
(*   lengths                                      1 unit = 1 m    (KM)     *)
(*   degrees                                      1 unit = 1e-3 deg (DEG)  *)
(*   times                                        1 unit = 1 s             *)
(*   orbital period                               1 unit = 1 ms   (MS)     *)
(*   mean motion                                  1 unit = 1e-10 rad/s     *)
(*   speeds                                       1 unit = 1e-6 km/s       *)
(* Every product and quotient is exact integer arithmetic rounded to the   *)
(* nearest unit (MulDiv), so the operators below compute what the code     *)
(* computes at a coarser resolution than an IEEE double.  A value that is  *)
(* NaN or +-Infinity in the build is the single value NonFinite.           *)
(***************************************************************************)
EXTENDS Integers, Sequences, FiniteSets, TLC

(***************************************************************************)
(* Fixed-point resolution                                                  *)
(***************************************************************************)
SCALE == 10 ^ 7
KM == 10 ^ 3
DEG == 10 ^ 3
MS == 10 ^ 3
SPEED == 10 ^ 6
\* mean motion: RATE_PER_SCALE units of 1e-10 rad/s make one SCALE unit per second
RATE_PER_SCALE == 10 ^ 3

Abs(n) == IF n < 0 THEN -n ELSE n
Sgn(n) == IF n < 0 THEN -1 ELSE IF n > 0 THEN 1 ELSE 0
Max(a, b) == IF a >= b THEN a ELSE b
Min(a, b) == IF a >= b THEN b ELSE a

\* the one element of a singleton set; The({F(v) : v \in {e}}) is F(e) with e
\* evaluated once, before F
The(S) == CHOOSE x \in S : TRUE

\* One digit d = b % base of the long multiplication below: from <<q, r>> for
\* a * (b \div base) to <<q, r>> for a * b.
MulDivDigit(h, a, d, c, base) ==
  << base * h[1] + d * (a \div c) + ((base * h[2] + d * (a % c)) \div c),
     (base * h[2] + d * (a % c)) % c >>

RECURSIVE MulDivBy(_, _, _, _)
MulDivBy(a, b, c, base) ==
  IF b = 0 THEN <<0, 0>>
  ELSE The({ MulDivDigit(h, a, b % base, c, base) :
               h \in {MulDivBy(a, b \div base, c, base)} })

\* <<q, r>> with a * b = q * c + r and 0 <= r < c, for a, b >= 0 and c > 0,
\* without forming the product a * b (which may exceed 32 bits): b is taken
\* in digits of 4 bits when 31 * c fits in 32 bits, else bit by bit (3 * c
\* must fit).
MulDivNat(a, b, c) == MulDivBy(a, b, c, IF c < 2 ^ 26 THEN 16 ELSE 2)

\* q rounded up when the remainder r is at least c / 2
RoundQuotient(p, c) == p[1] + (IF 2 * p[2] >= c THEN 1 ELSE 0)

\* a / c rounded to the nearest integer (halves away from zero), c > 0
RoundDiv(a, c) == Sgn(a) * ((2 * Abs(a) + c) \div (2 * c))

\* a * b / c rounded to the nearest integer (halves away from zero).
MulDivOf(a, b, c) ==
  Sgn(a) * Sgn(b) * Sgn(c)
    * RoundQuotient(MulDivNat(Max(Abs(a), Abs(b)), Min(Abs(a), Abs(b)), Abs(c)),
                    Abs(c))
MulDiv(a, b, c) == The({ MulDivOf(x, y, z) : x \in {a}, y \in {b}, z \in {c} })

\* a * b / SCALE rounded to the nearest integer, for a, b >= 0, by long
\* multiplication in limbs of LIMB = 10^4 (LIMB * LIMB = 10 * SCALE):
\* a * b = hi * LIMB^2 + mid * LIMB + lo.
LIMB == 10 ^ 4
MulRound(x) == (x \div SCALE) + (IF 2 * (x % SCALE) >= SCALE THEN 1 ELSE 0)
MulParts(hi, mid, lo) ==
  hi * 10 + (mid \div (10 ^ 3)) + MulRound((mid % (10 ^ 3)) * LIMB + lo)
MulNat(a, b) ==
  MulParts((a \div LIMB) * (b \div LIMB),
           (a \div LIMB) * (b % LIMB) + (a % LIMB) * (b \div LIMB),
           (a % LIMB) * (b % LIMB))
MulOf(a, b) == Sgn(a) * Sgn(b) * MulNat(Abs(a), Abs(b))

\* Product and quotient of two SCALE fixed-point numbers.
Mul(a, b) == The({ MulOf(x, y) : x \in {a}, y \in {b} })
Div(a, b) == MulDiv(a, SCALE, b)

\* floor(sqrt(x * s)) by Newton's iteration from above, x, s > 0.
RECURSIVE SqrtIter(_, _, _)
SqrtNext(x, s, y, y2) == IF y2 >= y THEN y ELSE SqrtIter(x, s, y2)
SqrtIter(x, s, y) ==
  The({ SqrtNext(x, s, y, y2) : y2 \in {(y + MulDivNat(x, s, y)[1]) \div 2} })

SqrtScaled(x, s) ==
  IF x <= 0 \/ s <= 0 THEN 0
  ELSE The({ SqrtIter(xv, sv, Max(xv, sv)) : xv \in {x}, sv \in {s} })

\* Math.sqrt on a SCALE fixed-point number.
Sqrt(x) == SqrtScaled(x, SCALE)

(***************************************************************************)
(* Math.PI, Math.sin, Math.cos, Math.atan2                                 *)
(***************************************************************************)
PI == 31415926
HALF_PI == PI \div 2
TWO_PI == 2 * PI

\* x brought into [-PI, PI)
Reduce(x) == ((x + PI) % TWO_PI) - PI

\* sum of the Taylor series x - x^3/6 + x^5/120 - ... (k = 2) and
\* 1 - x^2/2 + x^4/24 - ... (k = 1) from the term `term` on
RECURSIVE TaylorSeries(_, _, _, _)
TaylorSeries(x2, term, k, acc) ==
  IF term = 0 \/ k > 21 THEN acc
  ELSE The({ TaylorSeries(x2, next, k + 2, sum) :
               next \in {- RoundDiv(Mul(term, x2), k * (k + 1))},
               sum \in {acc + term} })

\* sin of r in [-PI, PI): folded into [-PI/2, PI/2]
SinFolded(f) == The({ TaylorSeries(x2, f, 2, 0) : x2 \in {Mul(f, f)} })
SinReduced(r) ==
  SinFolded(IF r > HALF_PI THEN PI - r ELSE IF r < -HALF_PI THEN -PI - r ELSE r)
Sin(x) == The({ SinReduced(r) : r \in {Reduce(x)} })

\* cos of r in [0, PI]
CosFolded(f) == The({ TaylorSeries(x2, SCALE, 1, 0) : x2 \in {Mul(f, f)} })
CosReduced(r) == IF r > HALF_PI THEN - CosFolded(PI - r) ELSE CosFolded(r)
Cos(x) == The({ CosReduced(r) : r \in {Abs(Reduce(x))} })

\* sum of the series t - t^3/3 + t^5/5 - ... for |t| <= tan(pi/8)
RECURSIVE AtanSeries(_, _, _, _)
AtanSeries(t2, pow, k, acc) ==
  IF pow = 0 \/ k > 41 THEN acc
  ELSE The({ AtanSeries(t2, next, k + 2, sum) :
               next \in {- Mul(pow, t2)}, sum \in {acc + RoundDiv(pow, k)} })

AtanSmall(u) == The({ AtanSeries(t2, v, 1, 0) : t2 \in {Mul(u, u)}, v \in {u} })

\* atan(t) for 0 <= t <= 1 (t in SCALE units)
Atan01(t) ==
  IF 10 * t > 4 * SCALE
  THEN (PI \div 4) + AtanSmall(MulDiv(t - SCALE, SCALE, t + SCALE))
  ELSE AtanSmall(t)

\* Math.atan2(y, x) from a = atan(min(|y|,|x|) / max(|y|,|x|))
Atan2Quadrant(y, x, a) ==
  (IF y < 0 THEN -1 ELSE 1)
    * (IF x >= 0 THEN (IF Abs(y) <= Abs(x) THEN a ELSE HALF_PI - a)
                 ELSE (IF Abs(y) <= Abs(x) THEN PI - a ELSE HALF_PI + a))

\* Math.atan2(y, x); y and x only need a common unit.
Atan2(y, x) ==
  IF x = 0 /\ y = 0 THEN 0
  ELSE The({ Atan2Quadrant(y, x, Atan01(t)) :
               t \in {MulDiv(Min(Abs(y), Abs(x)), SCALE, Max(Abs(y), Abs(x)))} })

(***************************************************************************)
(* JavaScript values                                                       *)
(***************************************************************************)
\* a finite number, and the one value standing for NaN, Infinity, -Infinity
Fin(n) == [k |-> "fin", v |-> n]
NonFinite == [k |-> "nonfinite", v |-> 0]
IsFin(n) == n.k = "fin"

Vec(x, y, z) == [x |-> x, y |-> y, z |-> z]
ZeroVec == Vec(Fin(0), Fin(0), Fin(0))
NonFiniteVec == Vec(NonFinite, NonFinite, NonFinite)

\* A satellite descriptor is a function from the names of the properties the
\* object has to their values; a property that is absent reads as undefined.
Has(sat, f) == f \in DOMAIN sat
\* sat.f || d : d when the property is undefined or 0 (both falsy)
OrDefault(sat, f, d) == IF Has(sat, f) /\ sat[f] # 0 THEN sat[f] ELSE d
\* { ...a, ...b }
Spread(a, b) ==
  [f \in (DOMAIN a) \cup (DOMAIN b) |-> IF f \in DOMAIN b THEN b[f] ELSE a[f]]

(***************************************************************************)
(* SatelliteSimulator                                                      *)
(***************************************************************************)
earthRadius == 6371
\* Earth's gravitational parameter, 398600.4418 km^3/s^2, in 1e-3 km^3/s^2
mu == 398600442
\* a loop bound of 12 passes
maxIterationsRaised == 10 + 2
maxIterations == 10
\* the convergence threshold 1e-6 in SCALE units
Tolerance == SCALE \div (10 ^ 6)

\* deg * Math.PI / 180
ToRadians(deg) == MulDiv(deg, PI, 180 * DEG)
\* rad * 180 / Math.PI
ToDegrees(rad) == MulDiv(rad, 180 * DEG, PI)

\* Math.pow(semiMajorAxis, 3) / mu in 1e-2 s^2
CubeOverMu(semiMajorAxis) ==
  MulDiv(MulDiv(semiMajorAxis, semiMajorAxis, KM * KM) * 10, semiMajorAxis * 10, mu)

\* 2 * Math.PI * Math.sqrt(Math.pow(semiMajorAxis, 3) / mu), in ms
OrbitalPeriodOf(semiMajorAxis) ==
  MulDiv(TWO_PI, SqrtScaled(CubeOverMu(semiMajorAxis), 10 ^ 4), SCALE)

\* 2 * Math.PI / orbitalPeriod
MeanMotionOf(orbitalPeriod) == MulDiv(TWO_PI, RATE_PER_SCALE * MS, orbitalPeriod)

\* the elements every orbit family has
BaseElementsOf(semiMajorAxis, inclinationRad, orbitalPeriod) ==
  [semiMajorAxis |-> semiMajorAxis,
   inclination |-> inclinationRad,
   meanMotion |-> MeanMotionOf(orbitalPeriod),
   orbitalPeriod |-> orbitalPeriod,
   eccentricity |-> 0,
   argumentOfPeriapsis |-> 0,
   rightAscensionOfAscendingNode |-> 0,
   meanAnomaly |-> 0]

BaseElements(semiMajorAxis, inclinationRad, orbitalPeriod) ==
  The({ BaseElementsOf(a, i, T) :
          a \in {semiMajorAxis}, i \in {inclinationRad}, T \in {orbitalPeriod} })

\* orbit-specific elements that exist only for the LEO and Polar families:
\* for any other orbitType no elements (undefined) come back
FamilyElementsOfKnownFamily(sat, base) ==
  IF sat["orbitType"] = "LEO"
  THEN [base EXCEPT
          !.eccentricity = OrDefault(sat, "eccentricity", SCALE \div 100),
          !.argumentOfPeriapsis =
             ToRadians(OrDefault(sat, "argumentOfPeriapsis", 0))]
  ELSE IF sat["orbitType"] = "Polar"
  THEN [base EXCEPT
          !.rightAscensionOfAscendingNode =
             ToRadians(OrDefault(sat, "rightAscensionOfAscendingNode", 0)),
          !.meanAnomaly = ToRadians(OrDefault(sat, "meanAnomaly", 0))]
  ELSE <<>>

\* orbit-specific elements from every field the descriptor holds, whatever
\* its orbitType
FamilyElementsOfFields(sat, base) ==
  [base EXCEPT
     !.eccentricity = OrDefault(sat, "eccentricity", 0),
     !.argumentOfPeriapsis = ToRadians(OrDefault(sat, "argumentOfPeriapsis", 0)),
     !.rightAscensionOfAscendingNode =
        ToRadians(OrDefault(sat, "rightAscensionOfAscendingNode", 0)),
     !.meanAnomaly = ToRadians(OrDefault(sat, "meanAnomaly", 0))]

\* the orbit-specific elements added to the base
FamilyElements(sat, base) ==
  IF sat["orbitType"] = "LEO"
  THEN [base EXCEPT
          !.eccentricity = OrDefault(sat, "eccentricity", SCALE \div 100),
          !.argumentOfPeriapsis =
             ToRadians(OrDefault(sat, "argumentOfPeriapsis", 0))]
  ELSE IF sat["orbitType"] = "Polar"
  THEN [base EXCEPT
          !.rightAscensionOfAscendingNode =
             ToRadians(OrDefault(sat, "rightAscensionOfAscendingNode", 0)),
          !.meanAnomaly = ToRadians(OrDefault(sat, "meanAnomaly", 0))]
  ELSE base

calculateOrbitalElements(sat) ==
  The({ FamilyElements(sat, base) :
          base \in {BaseElements(sat["altitude"] + earthRadius * KM,
                                 ToRadians(sat["inclination"]),
                                 OrbitalPeriodOf(sat["altitude"] + earthRadius * KM))} })

Constructor(sat) ==
  [satellite |-> sat,
   time |-> 0,
   position |-> ZeroVec,
   velocity |-> ZeroVec,
   orbitalElements |-> calculateOrbitalElements(sat)]

\* f without the factor eccentricity: E - sin(E) - M
KeplerFOfUnitEccentricity(E, M, e) == E - Sin(E) - M

\* f and fPrime of one pass of the loop of solveKeplersEquation
KeplerF(E, M, e) == E - Mul(e, Sin(E)) - M
KeplerFPrime(E, e) == SCALE - Mul(e, Cos(E))

\* The loop of solveKeplersEquation from pass i with the estimate E.
RECURSIVE KeplerLoop(_, _, _, _)
KeplerPass(E, M, e, i, f) ==
  IF Abs(f) < Tolerance THEN E
  ELSE The({ KeplerLoop(next, M, e, i + 1) :
               next \in {E - Div(f, KeplerFPrime(E, e))} })
KeplerLoop(E, M, e, i) ==
  IF i >= maxIterations THEN E
  ELSE The({ KeplerPass(E, M, e, i, f) : f \in {KeplerF(E, M, e)} })

solveKeplersEquation(meanAnomaly, eccentricity) ==
  The({ KeplerLoop(M, M, e, 0) : M \in {meanAnomaly}, e \in {eccentricity} })

\* meanAnomaly + meanMotion * this.time
CurrentMeanAnomaly(el, t) ==
  el.meanAnomaly + MulDiv(el.meanMotion, t, RATE_PER_SCALE)

TrueAnomalyHalf(e, half) ==
  2 * The({ Atan2(y, x) : y \in {Mul(Sqrt(SCALE + e), Sin(half))},
                          x \in {Mul(Sqrt(SCALE - e), Cos(half))} })
TrueAnomaly(e, eccentricAnomaly) ==
  TrueAnomalyHalf(e, MulDiv(eccentricAnomaly, 1, 2))

OrbitalRadius(el, eccentricAnomaly) ==
  Mul(el.semiMajorAxis, SCALE - Mul(el.eccentricity, Cos(eccentricAnomaly)))

\* the rotation with the inclination left out of the x and y components
RotateFlattened(xOrbital, yOrbital, cosRAAN, sinRAAN, cosInc, sinInc, cosArgP, sinArgP) ==
  Vec(Fin(Mul(xOrbital, Mul(cosRAAN, cosArgP) - Mul(sinRAAN, sinArgP))
          - Mul(yOrbital, Mul(cosRAAN, sinArgP) + Mul(sinRAAN, cosArgP))),
      Fin(Mul(xOrbital, Mul(sinRAAN, cosArgP) + Mul(cosRAAN, sinArgP))
          - Mul(yOrbital, Mul(sinRAAN, sinArgP) - Mul(cosRAAN, cosArgP))),
      Fin(Mul(Mul(xOrbital, sinArgP), sinInc) + Mul(Mul(yOrbital, cosArgP), sinInc)))

\* the rotation of (xOrbital, yOrbital) into Earth-centered inertial coordinates
Rotate(xOrbital, yOrbital, cosRAAN, sinRAAN, cosInc, sinInc, cosArgP, sinArgP) ==
  Vec(Fin(Mul(xOrbital, Mul(cosRAAN, cosArgP) - Mul(Mul(sinRAAN, sinArgP), cosInc))
          - Mul(yOrbital, Mul(cosRAAN, sinArgP) + Mul(Mul(sinRAAN, cosArgP), cosInc))),
      Fin(Mul(xOrbital, Mul(sinRAAN, cosArgP) + Mul(Mul(cosRAAN, sinArgP), cosInc))
          - Mul(yOrbital, Mul(sinRAAN, sinArgP) - Mul(Mul(cosRAAN, cosArgP), cosInc))),
      Fin(Mul(Mul(xOrbital, sinArgP), sinInc) + Mul(Mul(yOrbital, cosArgP), sinInc)))

InPlane(el, radius, trueAnomaly) ==
  The({ Rotate(xOrbital, yOrbital, cosRAAN, sinRAAN, cosInc, sinInc, cosArgP, sinArgP) :
          xOrbital \in {Mul(radius, Cos(trueAnomaly))},
          yOrbital \in {Mul(radius, Sin(trueAnomaly))},
          cosRAAN \in {Cos(el.rightAscensionOfAscendingNode)},
          sinRAAN \in {Sin(el.rightAscensionOfAscendingNode)},
          cosInc \in {Cos(el.inclination)},
          sinInc \in {Sin(el.inclination)},
          cosArgP \in {Cos(el.argumentOfPeriapsis)},
          sinArgP \in {Sin(el.argumentOfPeriapsis)} })

PositionFrom(el, eccentricAnomaly) ==
  The({ InPlane(el, radius, trueAnomaly) :
          radius \in {OrbitalRadius(el, eccentricAnomaly)},
          trueAnomaly \in {TrueAnomaly(el.eccentricity, eccentricAnomaly)} })

\* the position computed by calculatePosition from the elements at time t
PositionAt(el, t) ==
  The({ PositionFrom(el, eccentricAnomaly) :
          eccentricAnomaly \in
            {solveKeplersEquation(CurrentMeanAnomaly(el, t), el.eccentricity)} })

\* calculatePosition with "this.time = timeStep" for "this.time += timeStep"
calculatePositionRestarting(s, timeStep) ==
  [s EXCEPT !.time = timeStep,
            !.position = PositionAt(s.orbitalElements, timeStep)]

\* calculatePosition that also clears this.velocity
calculatePositionClearingVelocity(s, timeStep) ==
  [s EXCEPT !.time = s.time + timeStep,
            !.position = PositionAt(s.orbitalElements, s.time + timeStep),
            !.velocity = ZeroVec]

\* calculatePosition with the position taken at timeStep, not at this.time
calculatePositionOfStep(s, timeStep) ==
  [s EXCEPT !.time = s.time + timeStep,
            !.position = PositionAt(s.orbitalElements, timeStep)]

calculatePosition(s, timeStep) ==
  [s EXCEPT !.time = s.time + timeStep,
            !.position = PositionAt(s.orbitalElements, s.time + timeStep)]

\* floor(sqrt(x^2 + y^2 + z^2)) by Newton's iteration from above
RECURSIVE HypotIter(_, _, _, _)
HypotNext(x, y, z, r, r2) == IF r2 >= r THEN r ELSE HypotIter(x, y, z, r2)
HypotIter(x, y, z, r) ==
  The({ HypotNext(x, y, z, r, r2) :
          r2 \in {(r + MulDivNat(x, x, r)[1] + MulDivNat(y, y, r)[1]
                     + MulDivNat(z, z, r)[1] + 2) \div 2} })

Hypot(x, y, z) ==
  IF x = 0 /\ y = 0 /\ z = 0 THEN 0
  ELSE The({ HypotIter(ax, ay, az, ax + ay + az) :
               ax \in {Abs(x)}, ay \in {Abs(y)}, az \in {Abs(z)} })

DirectionAt(angle) == [x |-> Cos(angle), y |-> Sin(angle), z |-> 0]

calculateVelocityDirection(s) ==
  DirectionAt(Atan2(s.position.y.v, s.position.x.v) + HALF_PI)

\* mu * (2/r - 1/semiMajorAxis) in 1e-6 km^2/s^2, r and semiMajorAxis in m
VisViva(r, semiMajorAxis) ==
  MulDiv(MulDiv(2 * KM * 10 ^ 5, 10 ^ 6, r)
           - MulDiv(KM * 10 ^ 5, 10 ^ 6, semiMajorAxis),
         mu, 10 ^ 8)

VelocityVector(velocityMagnitude, velocityDirection) ==
  Vec(Fin(Mul(velocityMagnitude, velocityDirection.x)),
      Fin(Mul(velocityMagnitude, velocityDirection.y)),
      Fin(Mul(velocityMagnitude, velocityDirection.z)))

\* the velocity computed at distance r from the origin
VelocityAt(s, r, v2) ==
  IF r = 0
  \* 2/0 is Infinity: Infinity * cos, Infinity * sin, Infinity * 0
  THEN NonFiniteVec
  ELSE IF v2 < 0
  \* Math.sqrt of a negative number is NaN
  THEN NonFiniteVec
  ELSE VelocityVector(SqrtScaled(v2, SPEED), calculateVelocityDirection(s))

VelocityFrom(s, r) ==
  The({ VelocityAt(s, r, v2) :
          v2 \in {IF r = 0 THEN 0 ELSE VisViva(r, s.orbitalElements.semiMajorAxis)} })

calculateVelocity(s) ==
  IF ~(IsFin(s.position.x) /\ IsFin(s.position.y) /\ IsFin(s.position.z))
  THEN [s EXCEPT !.velocity = NonFiniteVec]
  ELSE [s EXCEPT !.velocity =
          The({ VelocityFrom(s, r) :
                  r \in {Hypot(s.position.x.v, s.position.y.v, s.position.z.v)} })]

\* getOrbitalParameters reporting the semi-major axis as the altitude
getOrbitalParametersOfAxis(s) ==
  [orbitalPeriod |-> MulDiv(s.orbitalElements.orbitalPeriod, 1, 3600),
   altitude |-> s.orbitalElements.semiMajorAxis,
   eccentricity |-> s.orbitalElements.eccentricity,
   inclination |-> ToDegrees(s.orbitalElements.inclination),
   currentPosition |-> s.position,
   currentVelocity |-> s.velocity,
   simulationTime |-> s.time]

getOrbitalParameters(s) ==
  [orbitalPeriod |-> MulDiv(s.orbitalElements.orbitalPeriod, 1, 3600),
   altitude |-> s.orbitalElements.semiMajorAxis - 6371 * KM,
   eccentricity |-> s.orbitalElements.eccentricity,
   inclination |-> ToDegrees(s.orbitalElements.inclination),
   currentPosition |-> s.position,
   currentVelocity |-> s.velocity,
   simulationTime |-> s.time]

\* reset without "this.velocity = { x: 0, y: 0, z: 0 }"
resetKeepingVelocity(s) ==
  [s EXCEPT !.time = 0,
            !.position = ZeroVec,
            !.orbitalElements = calculateOrbitalElements(s.satellite)]

reset(s) ==
  [s EXCEPT !.time = 0,
            !.position = ZeroVec,
            !.velocity = ZeroVec,
            !.orbitalElements = calculateOrbitalElements(s.satellite)]

\* updateSatellite with the spread the other way round: stored fields win
updateSatelliteKeepingStored(s, newSatellite) ==
  [s EXCEPT !.satellite = Spread(newSatellite, s.satellite),
            !.orbitalElements =
               calculateOrbitalElements(Spread(newSatellite, s.satellite))]

updateSatellite(s, newSatellite) ==
  [s EXCEPT !.satellite = Spread(s.satellite, newSatellite),
            !.orbitalElements =
               calculateOrbitalElements(Spread(s.satellite, newSatellite))]

(***************************************************************************)
(* OrbitUtils.isStableOrbit                                                *)
(***************************************************************************)
minAltitude == 160
maxAltitude == 2000

\* An optional argument: <<>> when it is omitted or undefined, <<v>> otherwise.
Omitted == <<>>
Given(v) == <<v>>

\* isStableOrbit with "altitudeKm < maxAltitude" and "eccentricity <= 1"
isStableOrbitOpenAbove(altitudeKm, eccentricity) ==
  /\ altitudeKm >= minAltitude * KM
  /\ altitudeKm < maxAltitude * KM
  /\ (IF eccentricity = Omitted THEN 0 ELSE eccentricity[1]) >= 0
  /\ (IF eccentricity = Omitted THEN 0 ELSE eccentricity[1]) <= SCALE

\* isStableOrbit(altitudeKm, eccentricity = 0); altitudeKm in m, eccentricity in
\* SCALE units
isStableOrbit(altitudeKm, eccentricity) ==
  /\ altitudeKm >= minAltitude * KM
  /\ altitudeKm <= maxAltitude * KM
  /\ (IF eccentricity = Omitted THEN 0 ELSE eccentricity[1]) >= 0
  /\ (IF eccentricity = Omitted THEN 0 ELSE eccentricity[1]) < SCALE

(***************************************************************************)
(* State                                                                   *)
(***************************************************************************)
VARIABLES
  sim,            \* the propagator: satellite, time, position, velocity, orbitalElements
  lastOp,         \* the operation that produced this state
  prevOp,         \* the operation before it: "reset", "calculatePosition" or "other"
  arg,            \* the arguments the last operation was called with
  ret,            \* <<v>> when the last operation returned v to its caller, else <<>>
  constructed,    \* the descriptor the propagator was constructed with
  applied,        \* the arguments of the updateSatellite calls so far, in order
  nSteps,         \* calculatePosition calls since construction or the last reset
  run,            \* the current run of calculatePosition calls with one timeStep
  kepler,         \* one call of solveKeplersEquation, pass by pass
  stable,         \* one call of isStableOrbit
  satellites,     \* SatelliteList: the satellites prop
  simulators,     \* SatelliteList: the simulators map, satellite id -> propagator
  simulationData, \* SatelliteList: the simulationData map, satellite id -> snapshot
  created,        \* satellite id -> number of propagators constructed for it so far
  nChanges,       \* changes of the satellites prop so far
  nTicks,         \* timer ticks so far
  objects,        \* the vector objects allocated so far and who refers to them
  alerts,         \* useSatelliteData: the alerts state
  conjunctions,   \* useSatelliteData: the conjunctions state
  spaceWeatherAlerts, \* useSatelliteData: the spaceWeatherAlerts state
  threatAssessments,  \* useSatelliteData: satellite id -> threat assessment
  isOfflineMode,  \* useSatelliteData: the isOfflineMode state
  pending,        \* the monitorThreats runs that await their fetches
  now,            \* the clock (Date.now()), in s
  lastRun,        \* the monitorThreats run that wrote the state last
  nRuns,          \* monitorThreats runs started so far
  calls,          \* the calls of the API module made so far, with their outcomes
  hook            \* useSatelliteData: isSimulationRunning and the simulation intervals

propagatorVars == <<sim, lastOp, prevOp, arg, ret, constructed, applied, nSteps, run>>
listVars == <<satellites, simulators, simulationData, created, nChanges, nTicks>>
vars == <<sim, lastOp, prevOp, arg, ret, constructed, applied, nSteps, run,
          kepler, stable,
          satellites, simulators, simulationData, created, nChanges, nTicks,
          objects,
          alerts, conjunctions, spaceWeatherAlerts, threatAssessments, isOfflineMode,
          pending, now, lastRun, nRuns, calls, hook>>
monitorVars == <<alerts, conjunctions, spaceWeatherAlerts, threatAssessments,
                 isOfflineMode, pending, now, lastRun, nRuns>>

(***************************************************************************)
(* Bounds and inputs                                                       *)
(***************************************************************************)
MaxSteps == 2
MaxUpdates == 1
MaxRunTime == 61
MaxChanges == 3
MaxTicks == 2
MaxTimers == 2

\* the time steps the callers pass: SatelliteList (1 s), useSatelliteData (60 s)
StepDeltas == {1, 60}
\* the argument lists of calculatePosition: with a time step, or without one
StepArguments == {<<>>} \cup { <<dt>> : dt \in StepDeltas }

LeoIss ==
  [id |-> "s1", orbitType |-> "LEO", altitude |-> 408 * KM,
   inclination |-> 51600, velocity |-> 7660,
   eccentricity |-> 3000, argumentOfPeriapsis |-> 0]
\* what SatelliteForm submits when the eccentricity field is left empty
LeoZero ==
  [id |-> "s2", orbitType |-> "LEO", altitude |-> 550 * KM,
   inclination |-> 28500, velocity |-> 7590,
   eccentricity |-> 0, argumentOfPeriapsis |-> 30 * DEG]
PolarSat ==
  [id |-> "s3", orbitType |-> "Polar", altitude |-> 800 * KM,
   inclination |-> 98 * DEG, velocity |-> 7450,
   rightAscensionOfAscendingNode |-> 45 * DEG, meanAnomaly |-> 90 * DEG]
\* a descriptor without the optional properties
LeoBare ==
  [id |-> "s4", orbitType |-> "LEO", altitude |-> 700 * KM,
   inclination |-> 0, velocity |-> 7500]

\* a descriptor whose orbitType is neither "LEO" nor "Polar"
OtherFamily ==
  [id |-> "s5", orbitType |-> "MEO", altitude |-> 1500 * KM,
   inclination |-> 55 * DEG, velocity |-> 7100]

Descriptors == {LeoIss, LeoZero, PolarSat, LeoBare, OtherFamily}

\* arguments of updateSatellite
Updates ==
  { [altitude |-> 1200 * KM],
    [eccentricity |-> 200000, inclination |-> 63400] }

\* the values of the variables a specification does not use
NoSim == [satellite |-> <<>>, time |-> 0, position |-> ZeroVec,
          velocity |-> ZeroVec, orbitalElements |-> <<>>]
NoRun == [from |-> NoSim, delta |-> 0, count |-> 0]
NoKepler == [pc |-> "idle"]
NoStable == [pc |-> "idle"]
NoMap == <<>>
NoObjects == [heap |-> <<>>, position |-> 0, velocity |-> 0, kept |-> <<>>]
\* useSatelliteData after mounting: not running, window.simulationInterval unset (0)
NoHook == [isSimulationRunning |-> FALSE, simulationInterval |-> 0, active |-> {},
           issued |-> 0, lastCall |-> "none"]

PropagatorIdle ==
  /\ sim = NoSim
  /\ lastOp = "none"
  /\ prevOp = "none"
  /\ arg = <<>>
  /\ ret = <<>>
  /\ constructed = <<>>
  /\ applied = <<>>
  /\ nSteps = 0
  /\ run = NoRun

NoLastRun == [outcome |-> "none"]

MonitorIdle ==
  /\ alerts = <<>>
  /\ conjunctions = <<>>
  /\ spaceWeatherAlerts = <<>>
  /\ threatAssessments = NoMap
  /\ isOfflineMode = FALSE
  /\ pending = <<>>
  /\ now = 0
  /\ lastRun = NoLastRun
  /\ nRuns = 0

ListIdle ==
  /\ satellites = <<>>
  /\ simulators = NoMap
  /\ simulationData = NoMap
  /\ created = NoMap
  /\ nChanges = 0
  /\ nTicks = 0

(***************************************************************************)
(* One propagator: construction and its operations                         *)
(***************************************************************************)
Before(op) == IF op \in {"reset", "calculatePosition"} THEN op ELSE "other"

Init ==
  /\ \E d \in Descriptors : sim = Constructor(d) /\ constructed = d
  /\ lastOp = "constructor"
  /\ prevOp = "none"
  /\ arg = <<>>
  /\ ret = <<>>
  /\ applied = <<>>
  /\ nSteps = 0
  /\ run = NoRun
  /\ kepler = NoKepler
  /\ stable = NoStable
  /\ ListIdle
  /\ objects = NoObjects
  /\ MonitorIdle
  /\ calls = <<>>
  /\ hook = NoHook

\* calculatePosition(timeStep = 1): the time step of a call with the arguments a
timeStepOf(a) == IF a = <<>> THEN 1 ELSE a[1]

Step(a) ==
  /\ nSteps < MaxSteps
  /\ sim' = calculatePosition(sim, timeStepOf(a))
  /\ arg' = a
  /\ ret' = <<sim'.position>>
  /\ lastOp' = "calculatePosition"
  /\ prevOp' = Before(lastOp)
  /\ nSteps' = nSteps + 1
  /\ UNCHANGED <<constructed, applied, run, kepler, stable, listVars, objects, monitorVars, calls, hook>>

ComputeVelocity ==
  /\ sim' = calculateVelocity(sim)
  /\ arg' = <<>>
  /\ ret' = <<sim'.velocity>>
  /\ lastOp' = "calculateVelocity"
  /\ prevOp' = Before(lastOp)
  /\ UNCHANGED <<constructed, applied, nSteps, run, kepler, stable, listVars, objects, monitorVars, calls, hook>>

GetOrbitalParameters ==
  /\ arg' = <<>>
  /\ ret' = <<getOrbitalParameters(sim)>>
  /\ lastOp' = "getOrbitalParameters"
  /\ prevOp' = Before(lastOp)
  /\ UNCHANGED <<sim, constructed, applied, nSteps, run, kepler, stable, listVars, objects, monitorVars, calls, hook>>

Reset ==
  /\ sim' = reset(sim)
  /\ arg' = <<>>
  /\ ret' = <<>>
  /\ lastOp' = "reset"
  /\ prevOp' = Before(lastOp)
  /\ nSteps' = 0
  /\ UNCHANGED <<constructed, applied, run, kepler, stable, listVars, objects, monitorVars, calls, hook>>

UpdateParameters(p) ==
  /\ Len(applied) < MaxUpdates
  /\ sim' = updateSatellite(sim, p)
  /\ arg' = <<p>>
  /\ ret' = <<>>
  /\ lastOp' = "updateSatellite"
  /\ prevOp' = Before(lastOp)
  /\ applied' = Append(applied, p)
  /\ UNCHANGED <<constructed, nSteps, run, kepler, stable, listVars, objects, monitorVars, calls, hook>>

Next ==
  \/ \E a \in StepArguments : Step(a)
  \/ ComputeVelocity
  \/ GetOrbitalParameters
  \/ Reset
  \/ \E p \in Updates : UpdateParameters(p)

Spec == Init /\ [][Next]_vars

\* the descriptor a propagator holds after the updateSatellite calls so far:
\* each property has the value of the last call that supplied it, or else the
\* value it was constructed with
RECURSIVE LastSupplying(_, _)
LastSupplying(f, k) ==
  IF k = 0 THEN 0
  ELSE IF f \in DOMAIN applied[k] THEN k
  ELSE LastSupplying(f, k - 1)

MergedDescriptor ==
  [f \in (DOMAIN constructed) \cup UNION { DOMAIN applied[k] : k \in 1..Len(applied) } |->
     IF LastSupplying(f, Len(applied)) = 0 THEN constructed[f]
     ELSE applied[LastSupplying(f, Len(applied))][f]]

\* C1: reset() followed by getOrbitalParameters() reports simulationTime 0, the
\* zero vector for position and velocity, and the derived values of the current
\* merged descriptor (what a propagator newly constructed on it would report).
C1_ResetThenSnapshot ==
  (lastOp = "getOrbitalParameters" /\ prevOp = "reset") =>
    /\ ret[1].simulationTime = 0
    /\ ret[1].currentPosition = ZeroVec
    /\ ret[1].currentVelocity = ZeroVec
    /\ sim.satellite = MergedDescriptor
    /\ sim.orbitalElements = calculateOrbitalElements(MergedDescriptor)
    /\ ret[1] = getOrbitalParameters(Constructor(MergedDescriptor))

\* the snapshot after a reset of a propagator whose descriptor was updated, so
\* that its elements are no longer the ones of the construction descriptor
C1_Witness ==
  /\ lastOp = "getOrbitalParameters"
  /\ prevOp = "reset"
  /\ Len(applied) > 0
  /\ sim.orbitalElements # calculateOrbitalElements(constructed)

\* C2: updateSatellite leaves time, position and velocity as they were; the
\* stored descriptor takes every property of the argument and keeps every other
\* property, and the elements are recomputed from that merged descriptor.
C2_UpdateFrame ==
  [][lastOp' = "updateSatellite" =>
       /\ sim'.time = sim.time
       /\ sim'.position = sim.position
       /\ sim'.velocity = sim.velocity
       /\ DOMAIN sim'.satellite =
            (DOMAIN sim.satellite) \cup DOMAIN applied'[Len(applied')]
       /\ \A f \in DOMAIN sim'.satellite :
            sim'.satellite[f] =
              IF f \in DOMAIN applied'[Len(applied')]
              THEN applied'[Len(applied')][f]
              ELSE sim.satellite[f]
       /\ sim'.orbitalElements = calculateOrbitalElements(sim'.satellite)]_vars

\* an update of a propagator that has been stepped and has a velocity, and
\* whose elements the update changed
C2_Witness ==
  /\ lastOp = "updateSatellite"
  /\ sim.time > 0
  /\ sim.position # ZeroVec
  /\ sim.velocity # ZeroVec
  /\ sim.orbitalElements # calculateOrbitalElements(constructed)

\* C3: a propagator not stepped since construction or the last reset reports
\* the zero vector for position and for velocity.
C3_UnsteppedReportsZero ==
  nSteps = 0 =>
    /\ getOrbitalParameters(sim).currentPosition = ZeroVec
    /\ getOrbitalParameters(sim).currentVelocity = ZeroVec

\* C4: the elapsed time decreases only in a reset.
C4_TimeMonotone ==
  [][lastOp' # "reset" => sim'.time >= sim.time]_vars

\* a reset of a propagator that had just been stepped
C4_Witness ==
  /\ lastOp = "reset"
  /\ prevOp = "calculatePosition"
  /\ sim.time = 0

\* C9: the eccentricity of the elements is the descriptor's eccentricity when it
\* has one, and 0.01 when it has none.
C9_EccentricityOfDescriptor ==
  sim.orbitalElements.eccentricity =
    IF Has(sim.satellite, "eccentricity") THEN sim.satellite["eccentricity"]
    ELSE SCALE \div 100

\* C12: calculatePosition adds its time step (1 when called without one) to
\* the elapsed time, stores the position of the elements at the new time and
\* returns that stored position; descriptor, elements and velocity stay.
C12_StepFrame ==
  [][lastOp' = "calculatePosition" =>
       /\ sim'.time = sim.time + (IF arg' = <<>> THEN 1 ELSE arg'[1])
       /\ sim'.position = PositionAt(sim.orbitalElements, sim'.time)
       /\ ret' = <<sim'.position>>
       /\ sim'.satellite = sim.satellite
       /\ sim'.orbitalElements = sim.orbitalElements
       /\ sim'.velocity = sim.velocity]_vars

\* a call without a time step, after a call with 60 s, on a propagator that has
\* a velocity
C12_Witness ==
  /\ lastOp = "calculatePosition"
  /\ arg = <<>>
  /\ sim.time = 61
  /\ sim.velocity # ZeroVec
  /\ IsFin(sim.velocity.x)
  /\ ret = <<sim.position>>

\* C14: in every reachable state the snapshot of getOrbitalParameters reports
\* the altitude and the inclination (in degrees) of the current merged
\* descriptor and the elapsed time as simulationTime; a snapshot just returned
\* is that snapshot.
C14_SnapshotOfDescriptor ==
  /\ getOrbitalParameters(sim).altitude = MergedDescriptor["altitude"]
  /\ getOrbitalParameters(sim).inclination = MergedDescriptor["inclination"]
  /\ getOrbitalParameters(sim).simulationTime = sim.time
  /\ lastOp = "getOrbitalParameters" => ret = <<getOrbitalParameters(sim)>>

\* a snapshot taken after the altitude was updated to 1200 km and 61 s elapsed
C14_Witness ==
  /\ lastOp = "getOrbitalParameters"
  /\ applied = <<[altitude |-> 1200 * KM]>>
  /\ constructed = LeoIss
  /\ ret[1].altitude = 1200 * KM
  /\ ret[1].inclination = 51600
  /\ ret[1].simulationTime = 61

\* the x-y parts of velocity and position, in km/s * 1e-3 and km, are
\* perpendicular and turn counter-clockwise
QuarterTurnAhead(velocity, position) ==
  /\ IsFin(velocity.x) /\ IsFin(velocity.y)
  /\ Abs((velocity.x.v \div KM) * (position.x.v \div KM)
           + (velocity.y.v \div KM) * (position.y.v \div KM)) <= 10 ^ 5
  /\ (position.x.v \div KM) * (velocity.y.v \div KM)
       - (position.y.v \div KM) * (velocity.x.v \div KM) > 0

\* C15: after calculateVelocity, in any propagator state, the z-component of
\* the stored velocity is 0 and the velocity's x-y direction is the position's
\* x-y direction rotated by +90 degrees.
C15_VelocityInPlane ==
  lastOp = "calculateVelocity" =>
    /\ sim.velocity.z = Fin(0)
    /\ QuarterTurnAhead(sim.velocity, sim.position)

\* the names of the orbital elements
ElementNames ==
  {"semiMajorAxis", "inclination", "meanMotion", "orbitalPeriod", "eccentricity",
   "argumentOfPeriapsis", "rightAscensionOfAscendingNode", "meanAnomaly"}

\* a vector object: three numbers, each finite or not
IsVector(v) ==
  /\ DOMAIN v = {"x", "y", "z"}
  /\ \A c \in {"x", "y", "z"} : v[c] = NonFinite \/ (IsFin(v[c]) /\ v[c].v \in Int)

\* C16: no propagator operation ends in an error, whatever the descriptor
\* (family-specific fields missing, orbitType neither LEO nor Polar): after
\* construction and after every operation the propagator holds the merged
\* descriptor, a full set of numeric orbital elements, a position and a velocity
\* vector, and each operation that returns a value has returned one.
C16_EveryOperationCompletes ==
  /\ sim.satellite = MergedDescriptor
  /\ DOMAIN sim.orbitalElements = ElementNames
  /\ \A f \in ElementNames : sim.orbitalElements[f] \in Int
  /\ sim.time \in Nat
  /\ IsVector(sim.position)
  /\ IsVector(sim.velocity)
  /\ lastOp \in {"calculatePosition", "calculateVelocity"} =>
        Len(ret) = 1 /\ IsVector(ret[1])
  /\ lastOp = "getOrbitalParameters" =>
        /\ Len(ret) = 1
        /\ DOMAIN ret[1] = {"orbitalPeriod", "altitude", "eccentricity", "inclination",
                            "currentPosition", "currentVelocity", "simulationTime"}
  /\ lastOp \in {"constructor", "reset", "updateSatellite"} => ret = <<>>

\* a propagator of an unknown orbit family that was stepped, had its velocity
\* computed and its parameters updated, and then gave a snapshot
C16_Witness ==
  /\ constructed = OtherFamily
  /\ lastOp = "getOrbitalParameters"
  /\ Len(applied) = 1
  /\ nSteps = 2
  /\ IsFin(sim.velocity.x) /\ sim.velocity # ZeroVec
  /\ sim.orbitalElements["eccentricity"] = 0

\* a LEO propagator built without eccentricity and argumentOfPeriapsis, reset
\* after a step
C16_BareWitness ==
  /\ constructed = LeoBare
  /\ lastOp = "reset"
  /\ prevOp = "calculatePosition"
  /\ sim.orbitalElements["eccentricity"] = SCALE \div 100

(***************************************************************************)
(* Runs of calculatePosition calls with one time step                      *)
(***************************************************************************)
StepInit ==
  /\ \E d \in Descriptors : sim = Constructor(d) /\ constructed = d
  /\ lastOp = "constructor"
  /\ prevOp = "none"
  /\ arg = <<>>
  /\ ret = <<>>
  /\ applied = <<>>
  /\ nSteps = 0
  /\ run = NoRun
  /\ kepler = NoKepler
  /\ stable = NoStable
  /\ ListIdle
  /\ objects = NoObjects
  /\ MonitorIdle
  /\ calls = <<>>
  /\ hook = NoHook

\* the run the call calculatePosition(dt) belongs to: the current one when it
\* was made of calls with the same dt, otherwise a new one from the state before
\* the call
RunWith(dt) ==
  IF run.count > 0 /\ run.delta = dt
  THEN [run EXCEPT !.count = run.count + 1]
  ELSE [from |-> sim, delta |-> dt, count |-> 1]

StepInRun(dt) ==
  /\ sim.time + dt <= MaxRunTime
  /\ sim' = calculatePosition(sim, dt)
  /\ arg' = <<dt>>
  /\ ret' = <<sim'.position>>
  /\ lastOp' = "calculatePosition"
  /\ prevOp' = Before(lastOp)
  /\ nSteps' = nSteps + 1
  /\ run' = RunWith(dt)
  /\ UNCHANGED <<constructed, applied, kepler, stable, listVars, objects, monitorVars, calls, hook>>

StepNext == \E dt \in StepDeltas : StepInRun(dt)

SpecStep == StepInit /\ [][StepNext]_vars

\* C5: after n calls calculatePosition(d) the propagator is in the state one
\* call calculatePosition(n * d) from the state before the run leaves it in:
\* the same elapsed time, which is n * d more than before, and the same position.
C5_StepsAdd ==
  run.count > 0 =>
    /\ sim.time = run.from.time + run.count * run.delta
    /\ sim.time = calculatePosition(run.from, run.count * run.delta).time
    /\ sim.position = calculatePosition(run.from, run.count * run.delta).position

\* 60 calls calculatePosition(1) from a new propagator on an eccentric orbit
C5_Witness ==
  /\ run.count = 60
  /\ run.delta = 1
  /\ run.from.time = 0
  /\ sim.orbitalElements.eccentricity > 0
  /\ sim.position = calculatePosition(run.from, 60).position
  /\ sim.position # ZeroVec

(***************************************************************************)
(* solveKeplersEquation, one pass of its loop at a time                    *)
(***************************************************************************)
\* mean anomalies and eccentricities the solver is called with; the mean
\* anomaly is NaN when the elements were derived from a descriptor without
\* an altitude
KeplerAnomalies ==
  { Fin(0), Fin(7), Fin(SCALE \div 20), Fin(3 * (SCALE \div 10)),
    Fin(6 * (SCALE \div 10)), Fin(SCALE \div 2), Fin(SCALE), Fin(2 * SCALE),
    Fin(PI), Fin(-3 * (SCALE \div 10)), Fin(5 * TWO_PI + 3 * SCALE), NonFinite }
KeplerEccentricities ==
  { 0, 3000, SCALE \div 100, SCALE \div 2, 9 * (SCALE \div 10),
    99 * (SCALE \div 100) }

\* const f = eccentricAnomaly - eccentricity * Math.sin(eccentricAnomaly) - meanAnomaly
KeplerResidual(E, M, e) ==
  IF IsFin(E) /\ IsFin(M) THEN Fin(KeplerF(E.v, M.v, e)) ELSE NonFinite

\* Math.abs(f) < 1e-6, false for NaN
KeplerConverged(f) == IsFin(f) /\ Abs(f.v) < Tolerance

\* eccentricAnomaly - f / fPrime
KeplerUpdate(E, M, e) ==
  IF ~IsFin(KeplerResidual(E, M, e)) THEN NonFinite
  ELSE IF KeplerFPrime(E.v, e) = 0 THEN NonFinite
  ELSE Fin(E.v - Div(KeplerF(E.v, M.v, e), KeplerFPrime(E.v, e)))

KeplerInit ==
  /\ \E M \in KeplerAnomalies, e \in KeplerEccentricities :
       kepler = [pc |-> "loop", meanAnomaly |-> M, eccentricity |-> e,
                 eccentricAnomaly |-> M, i |-> 0, residuals |-> <<>>]
  /\ PropagatorIdle
  /\ stable = NoStable
  /\ ListIdle
  /\ objects = NoObjects
  /\ MonitorIdle
  /\ calls = <<>>
  /\ hook = NoHook

\* a pass that ends the loop: i < maxIterations and Math.abs(f) < 1e-6
KeplerBreak ==
  /\ kepler.pc = "loop"
  /\ kepler.i < maxIterations
  /\ KeplerConverged(KeplerResidual(kepler.eccentricAnomaly, kepler.meanAnomaly,
                                    kepler.eccentricity))
  /\ kepler' = [kepler EXCEPT
       !.pc = "return",
       !.residuals = Append(@, KeplerResidual(kepler.eccentricAnomaly,
                                 kepler.meanAnomaly, kepler.eccentricity))]
  /\ UNCHANGED <<propagatorVars, stable, listVars, objects, monitorVars, calls, hook>>

\* a pass that updates the estimate and increments i
KeplerNewton ==
  /\ kepler.pc = "loop"
  /\ kepler.i < maxIterations
  /\ ~KeplerConverged(KeplerResidual(kepler.eccentricAnomaly, kepler.meanAnomaly,
                                     kepler.eccentricity))
  /\ kepler' = [kepler EXCEPT
       !.eccentricAnomaly = KeplerUpdate(kepler.eccentricAnomaly,
                              kepler.meanAnomaly, kepler.eccentricity),
       !.i = kepler.i + 1,
       !.residuals = Append(@, KeplerResidual(kepler.eccentricAnomaly,
                                 kepler.meanAnomaly, kepler.eccentricity))]
  /\ UNCHANGED <<propagatorVars, stable, listVars, objects, monitorVars, calls, hook>>

\* the loop condition i < maxIterations fails
KeplerExhausted ==
  /\ kepler.pc = "loop"
  /\ kepler.i >= maxIterations
  /\ kepler' = [kepler EXCEPT !.pc = "return"]
  /\ UNCHANGED <<propagatorVars, stable, listVars, objects, monitorVars, calls, hook>>

\* return eccentricAnomaly
KeplerReturn ==
  /\ kepler.pc = "return"
  /\ kepler' = [kepler EXCEPT !.pc = "done"]
  /\ ret' = <<kepler.eccentricAnomaly>>
  /\ lastOp' = "solveKeplersEquation"
  /\ UNCHANGED <<sim, prevOp, arg, constructed, applied, nSteps, run, stable, listVars, objects, monitorVars, calls, hook>>

KeplerNext ==
  \/ KeplerBreak
  \/ KeplerNewton
  \/ KeplerExhausted
  \/ KeplerReturn

\* the loop runs to completion inside one synchronous call
SpecKepler == KeplerInit /\ [][KeplerNext]_vars /\ WF_vars(KeplerNext)

\* the residual of a pass is below 1e-6
BelowTolerance(f) == IsFin(f) /\ Abs(f.v) < SCALE \div (10 ^ 6)

\* what C8 says of every state of a call
C8_KeplerState ==
  /\ kepler.i <= 10
  /\ Len(kepler.residuals) <= 10
  /\ \A k \in 1..(Len(kepler.residuals) - 1) : ~BelowTolerance(kepler.residuals[k])
  /\ kepler.pc \in {"return", "done"} =>
       \/ /\ Len(kepler.residuals) >= 1
          /\ BelowTolerance(kepler.residuals[Len(kepler.residuals)])
          /\ kepler.i = Len(kepler.residuals) - 1
       \/ /\ Len(kepler.residuals) = 10
          /\ ~BelowTolerance(kepler.residuals[10])
          /\ kepler.i = 10
  /\ kepler.pc = "done" =>
       /\ ret = <<kepler.eccentricAnomaly>>
       /\ (IsFin(kepler.meanAnomaly) /\ IsFin(kepler.eccentricAnomaly)) =>
            kepler.eccentricAnomaly.v =
              solveKeplersEquation(kepler.meanAnomaly.v, kepler.eccentricity)

\* C8: every call of solveKeplersEquation returns, after at most 10 passes and
\* at most 10 Newton updates: at the first pass whose residual is below 1e-6,
\* or after exactly 10 updates when no pass had one; either way it returns its
\* estimate.
C8_KeplerTerminates == [](C8_KeplerState) /\ <>(kepler.pc = "done")

\* a call that returned a finite estimate after 10 updates without converging
C8_Witness ==
  /\ kepler.pc = "done"
  /\ kepler.i = 10
  /\ IsFin(kepler.eccentricAnomaly)
  /\ ~BelowTolerance(kepler.residuals[10])

\* C11 as stated: for eccentricity 0 the call returns its mean-anomaly argument
\* after a first residual of exactly 0 and no Newton update, for every mean
\* anomaly.
C11_CircularIdentityForEveryAnomaly ==
  (kepler.pc = "done" /\ kepler.eccentricity = 0) =>
    /\ kepler.i = 0
    /\ kepler.residuals = <<Fin(0)>>
    /\ kepler.eccentricAnomaly = kepler.meanAnomaly
    /\ ret = <<kepler.meanAnomaly>>

\* C11 for the mean anomalies that are numbers other than NaN and +-Infinity:
\* for eccentricity 0 the first residual is exactly 0, the loop ends without a
\* Newton update and the call returns its mean-anomaly argument.
C11_CircularIdentity ==
  (kepler.pc = "done" /\ kepler.eccentricity = 0 /\ IsFin(kepler.meanAnomaly)) =>
    /\ kepler.i = 0
    /\ kepler.residuals = <<Fin(0)>>
    /\ kepler.eccentricAnomaly = kepler.meanAnomaly
    /\ ret = <<kepler.meanAnomaly>>

\* a call with eccentricity 0 and a mean anomaly of more than five turns
C11_Witness ==
  /\ kepler.pc = "done"
  /\ kepler.eccentricity = 0
  /\ kepler.meanAnomaly = Fin(5 * TWO_PI + 3 * SCALE)
  /\ kepler.eccentricAnomaly = Fin(5 * TWO_PI + 3 * SCALE)

(***************************************************************************)
(* Calls of OrbitUtils.isStableOrbit                                       *)
(***************************************************************************)
\* altitudes in m and eccentricities in SCALE units around the limits
StableAltitudes ==
  { -10 * KM, 0, 50 * KM, 160 * KM - 1, 160 * KM, 160 * KM + 1, 400 * KM,
    2000 * KM - 1, 2000 * KM, 2000 * KM + 1, 36000 * KM }
StableEccentricities ==
  { Omitted, Given(-SCALE), Given(-1), Given(0), Given(1), Given(SCALE \div 100),
    Given(SCALE - 1), Given(SCALE), Given(SCALE + 1), Given(2 * SCALE) }

StableInit ==
  /\ \E a \in StableAltitudes, e \in StableEccentricities :
       stable = [pc |-> "call", altitudeKm |-> a, eccentricity |-> e]
  /\ PropagatorIdle
  /\ kepler = NoKepler
  /\ ListIdle
  /\ objects = NoObjects
  /\ MonitorIdle
  /\ calls = <<>>
  /\ hook = NoHook

\* the call: line 82 of SatelliteList passes satellite.altitude and
\* satellite.eccentricity, which is undefined for a descriptor without one
CheckStable ==
  /\ stable.pc = "call"
  /\ stable' = [stable EXCEPT !.pc = "done"]
  /\ ret' = <<isStableOrbit(stable.altitudeKm, stable.eccentricity)>>
  /\ lastOp' = "isStableOrbit"
  /\ UNCHANGED <<sim, prevOp, arg, constructed, applied, nSteps, run, kepler, listVars, objects, monitorVars, calls, hook>>

StableNext == CheckStable

SpecStable == StableInit /\ [][StableNext]_vars

\* the eccentricity a call is judged by: 0 when the argument is omitted
StableEccentricity == IF stable.eccentricity = Omitted THEN 0 ELSE stable.eccentricity[1]

\* C10: isStableOrbit returns true exactly when 160 <= altitude <= 2000 km and
\* 0 <= eccentricity < 1, the eccentricity being 0 when omitted; (400, 0.01) is
\* stable, (50, 0.01) and (400, 1.0) are not.
C10_StableIffInRange ==
  stable.pc = "done" =>
    /\ ret[1] = (/\ 160 * KM <= stable.altitudeKm
                 /\ stable.altitudeKm <= 2000 * KM
                 /\ 0 <= StableEccentricity
                 /\ StableEccentricity < SCALE)
    /\ (stable.altitudeKm = 400 * KM /\ stable.eccentricity = Given(SCALE \div 100))
         => ret[1] = TRUE
    /\ (stable.altitudeKm = 50 * KM /\ stable.eccentricity = Given(SCALE \div 100))
         => ret[1] = FALSE
    /\ (stable.altitudeKm = 400 * KM /\ stable.eccentricity = Given(SCALE))
         => ret[1] = FALSE

\* a call at the upper altitude limit, without an eccentricity, found stable
C10_Witness ==
  /\ stable.pc = "done"
  /\ stable.altitudeKm = 2000 * KM
  /\ stable.eccentricity = Omitted
  /\ ret = <<TRUE>>

(***************************************************************************)
(* The SatelliteList component                                             *)
(***************************************************************************)
\* the satellites the parent can list, and the properties it can alter
ListedSatellites == {LeoIss, PolarSat, LeoBare}
Alterations == { [altitude |-> 1200 * KM] }

SatelliteIds(list) == { list[i].id : i \in 1..Len(list) }

\* the satellite of the list with the id (ids are unique in the list)
SatelliteWithId(list, id) == list[CHOOSE i \in 1..Len(list) : list[i].id = id]

\* newSimulators of the effect on [satellites]: a propagator for every satellite
\* the simulators map does not have, and nothing else
newSimulators(list, sims) ==
  [id \in SatelliteIds(list) \ DOMAIN sims |->
     Constructor(SatelliteWithId(list, id))]

\* newSimulationData of that effect: a snapshot for every satellite of the
\* list, of its new propagator or of its existing one after updateSatellite
newSimulationData(list, sims) ==
  [id \in SatelliteIds(list) |->
     IF id \in DOMAIN sims
     THEN getOrbitalParameters(updateSatellite(sims[id], SatelliteWithId(list, id)))
     ELSE getOrbitalParameters(Constructor(SatelliteWithId(list, id)))]

\* the propagators constructed so far, after the effect ran
CreatedAfter(list, sims) ==
  [id \in (DOMAIN created) \cup SatelliteIds(list) |->
     (IF id \in DOMAIN created THEN created[id] ELSE 0)
       + (IF id \in DOMAIN sims THEN 0 ELSE 1)]

\* the effect on [satellites], run with the new list
InitializeSimulators(list) ==
  /\ simulators' = newSimulators(list, simulators)
  /\ simulationData' = newSimulationData(list, simulators)
  /\ created' = CreatedAfter(list, simulators)

ListInit ==
  /\ satellites = <<>>
  /\ simulators = NoMap
  /\ simulationData = NoMap
  /\ created = NoMap
  /\ nChanges = 0
  /\ nTicks = 0
  /\ PropagatorIdle
  /\ kepler = NoKepler
  /\ stable = NoStable
  /\ objects = NoObjects
  /\ MonitorIdle
  /\ calls = <<>>
  /\ hook = NoHook

\* the parent appends a satellite (App: setSatellites([...satellites, s]))
AddSatellite(d) ==
  /\ nChanges < MaxChanges
  /\ d.id \notin SatelliteIds(satellites)
  /\ satellites' = Append(satellites, d)
  /\ InitializeSimulators(Append(satellites, d))
  /\ nChanges' = nChanges + 1
  /\ UNCHANGED <<propagatorVars, kepler, stable, objects, monitorVars, calls, hook, nTicks>>

\* the parent passes a list in which satellite i has altered properties
ResupplySatellite(i, p) ==
  /\ nChanges < MaxChanges
  /\ i \in 1..Len(satellites)
  /\ Spread(satellites[i], p) # satellites[i]
  /\ satellites' = [satellites EXCEPT ![i] = Spread(satellites[i], p)]
  /\ InitializeSimulators([satellites EXCEPT ![i] = Spread(satellites[i], p)])
  /\ nChanges' = nChanges + 1
  /\ UNCHANGED <<propagatorVars, kepler, stable, objects, monitorVars, calls, hook, nTicks>>

\* simulator.calculatePosition(1); simulator.calculateVelocity()
TickSimulator(s) == calculateVelocity(calculatePosition(s, 1))

\* the interval callback, every 1000 ms
Tick ==
  /\ nTicks < MaxTicks
  /\ simulators' = [id \in DOMAIN simulators |-> TickSimulator(simulators[id])]
  /\ simulationData' =
       [id \in DOMAIN simulators |->
          getOrbitalParameters(TickSimulator(simulators[id]))]
  /\ nTicks' = nTicks + 1
  /\ UNCHANGED <<propagatorVars, kepler, stable, objects, monitorVars, calls, hook, satellites, created, nChanges>>

ListNext ==
  \/ \E d \in ListedSatellites : AddSatellite(d)
  \/ \E i \in 1..MaxChanges, p \in Alterations : ResupplySatellite(i, p)
  \/ Tick

SpecList == ListInit /\ [][ListNext]_vars

\* C6: every satellite of the list has a propagator in the simulators map.
C6_EveryListedSatelliteTracked ==
  \A i \in 1..Len(satellites) : satellites[i].id \in DOMAIN simulators

\* C7: a change of the list keeps the propagator of every satellite that had
\* one and is still listed: the same instance, with its elapsed time and its
\* position.
C7_TrackedPropagatorKept ==
  [][satellites' # satellites =>
       \A id \in (DOMAIN simulators) \cap SatelliteIds(satellites') :
         /\ id \in DOMAIN simulators'
         /\ created'[id] = created[id]
         /\ simulators'[id].time = simulators[id].time
         /\ simulators'[id].position = simulators[id].position]_vars

(***************************************************************************)
(* The propagator's vector objects.  this.position and this.velocity are   *)
(* references; a snapshot holds the references it was given, so a caller   *)
(* that keeps a snapshot sees every later write to the objects it refers   *)
(* to.  objects.heap[r] is the value of the object with reference r.       *)
(***************************************************************************)
MaxObjects == 6

\* the descriptors and time steps of the object-graph specification
HeapDescriptors == {LeoIss, PolarSat}
HeapStepArguments == {<<>>, <<60>>}

\* constructor: two fresh objects, for this.position and this.velocity
ConstructObjects ==
  [heap |-> <<ZeroVec, ZeroVec>>, position |-> 1, velocity |-> 2, kept |-> <<>>]

\* a store that writes the new value into the object this.position refers to
StorePositionInPlace(o, v) == [o EXCEPT !.heap[o.position] = v]

\* this.position = { x, y, z }: a fresh object, and this.position refers to it
StorePosition(o, v) ==
  [o EXCEPT !.heap = Append(o.heap, v), !.position = Len(o.heap) + 1]

\* this.velocity = { x: ..., y: ..., z: ... }
StoreVelocity(o, v) ==
  [o EXCEPT !.heap = Append(o.heap, v), !.velocity = Len(o.heap) + 1]

\* reset: this.position = { x: 0, y: 0, z: 0 }; this.velocity = { ... }
ResetObjects(o) == StoreVelocity(StorePosition(o, ZeroVec), ZeroVec)

\* currentPosition: this.position, currentVelocity: this.velocity, with the
\* values the two objects had when the snapshot was taken
SnapshotReferences(o) ==
  [currentPosition |-> o.position, currentVelocity |-> o.velocity,
   positionThen |-> o.heap[o.position], velocityThen |-> o.heap[o.velocity]]

\* what a holder of the references now reads through them
ReadThrough(o, snapshot) ==
  [currentPosition |-> o.heap[snapshot.currentPosition],
   currentVelocity |-> o.heap[snapshot.currentVelocity]]

HeapInit ==
  /\ \E d \in HeapDescriptors : sim = Constructor(d) /\ constructed = d
  /\ objects = ConstructObjects
  /\ lastOp = "constructor"
  /\ prevOp = "none"
  /\ arg = <<>>
  /\ ret = <<>>
  /\ applied = <<>>
  /\ nSteps = 0
  /\ run = NoRun
  /\ kepler = NoKepler
  /\ stable = NoStable
  /\ ListIdle
  /\ MonitorIdle
  /\ calls = <<>>
  /\ hook = NoHook

HeapStep(a) ==
  /\ nSteps < MaxSteps
  /\ Len(objects.heap) < MaxObjects
  /\ sim' = calculatePosition(sim, timeStepOf(a))
  /\ objects' = StorePosition(objects, sim'.position)
  /\ arg' = a
  /\ ret' = <<sim'.position>>
  /\ lastOp' = "calculatePosition"
  /\ prevOp' = Before(lastOp)
  /\ nSteps' = nSteps + 1
  /\ UNCHANGED <<constructed, applied, run, kepler, stable, listVars, monitorVars, calls, hook>>

HeapComputeVelocity ==
  /\ Len(objects.heap) < MaxObjects
  /\ sim' = calculateVelocity(sim)
  /\ objects' = StoreVelocity(objects, sim'.velocity)
  /\ arg' = <<>>
  /\ ret' = <<sim'.velocity>>
  /\ lastOp' = "calculateVelocity"
  /\ prevOp' = Before(lastOp)
  /\ UNCHANGED <<constructed, applied, nSteps, run, kepler, stable, listVars, monitorVars, calls, hook>>

\* the caller either keeps the snapshot it got or drops it
HeapGetOrbitalParameters(keep) ==
  /\ arg' = <<>>
  /\ ret' = <<getOrbitalParameters(sim)>>
  /\ objects' = IF keep THEN [objects EXCEPT !.kept = <<SnapshotReferences(objects)>>]
                        ELSE objects
  /\ lastOp' = "getOrbitalParameters"
  /\ prevOp' = Before(lastOp)
  /\ UNCHANGED <<sim, constructed, applied, nSteps, run, kepler, stable, listVars, monitorVars, calls, hook>>

HeapReset ==
  /\ Len(objects.heap) + 1 < MaxObjects
  /\ sim' = reset(sim)
  /\ objects' = ResetObjects(objects)
  /\ arg' = <<>>
  /\ ret' = <<>>
  /\ lastOp' = "reset"
  /\ prevOp' = Before(lastOp)
  /\ nSteps' = 0
  /\ UNCHANGED <<constructed, applied, run, kepler, stable, listVars, monitorVars, calls, hook>>

HeapNext ==
  \/ \E a \in HeapStepArguments : HeapStep(a)
  \/ HeapComputeVelocity
  \/ \E keep \in BOOLEAN : HeapGetOrbitalParameters(keep)
  \/ HeapReset

SpecHeap == HeapInit /\ [][HeapNext]_vars

\* the propagator's fields are the values of the objects they refer to
ObjectsAgree ==
  /\ sim.position = objects.heap[objects.position]
  /\ sim.velocity = objects.heap[objects.velocity]

\* C13: getOrbitalParameters changes no propagator state (descriptor, time,
\* position, velocity, elements, nor any vector object), two calls with no
\* operation in between return equal snapshots, and the position and velocity
\* read through a snapshot kept earlier stay what they were when it was taken,
\* whatever calculatePosition, calculateVelocity and reset calls follow.
C13_PureRead ==
  /\ [][lastOp' = "getOrbitalParameters" =>
          /\ sim' = sim
          /\ objects'.heap = objects.heap
          /\ objects'.position = objects.position
          /\ objects'.velocity = objects.velocity
          /\ (lastOp = "getOrbitalParameters" => ret' = ret)]_vars
  /\ [](ObjectsAgree /\
        \A i \in 1..Len(objects.kept) :
          /\ ReadThrough(objects, objects.kept[i]).currentPosition
               = objects.kept[i].positionThen
          /\ ReadThrough(objects, objects.kept[i]).currentVelocity
               = objects.kept[i].velocityThen)

\* a snapshot kept after a step and a velocity computation, followed by another
\* step and another velocity computation that moved both vectors
C13_Witness ==
  /\ Len(objects.kept) = 1
  /\ objects.kept[1].positionThen # ZeroVec
  /\ objects.kept[1].velocityThen # ZeroVec
  /\ IsFin(objects.kept[1].velocityThen.x)
  /\ sim.position # objects.kept[1].positionThen
  /\ sim.velocity # objects.kept[1].velocityThen
  /\ lastOp = "calculateVelocity"

(***************************************************************************)
(* useSatelliteData: threat monitoring.  A monitorThreats run starts when  *)
(* the satellites list changes and on every poll of the timer; it awaits   *)
(* its four fetches and then writes the alert state.  Dates are seconds    *)
(* since the epoch; a date string is a record of its format and its date.  *)
(***************************************************************************)
MaxRuns == 2
MaxPending == 2

HOUR == 3600
\* setInterval(monitorThreats, 30000)
PollInterval == 30

\* the satellites the hook holds: ids that the conjunction source knows
Iss == [LeoIss EXCEPT !["id"] = "25544"]
Starlink == [PolarSat EXCEPT !["id"] = "43013"]
MonitoredLists == {<<>>, <<Iss>>, <<Iss, Starlink>>}

\* new Date(t).toISOString() and new Date(s).getTime()
ToISOString(t) == [format |-> "iso", date |-> t]
GetTime(s) == s.date

\* Math.round(x / d): the nearest integer, a half rounded up
RoundHalfUp(x, d) == (2 * x + d) \div (2 * d)
\* (x / 3600).toFixed(1) in tenths: the nearest tenth, a half away from zero
ToFixed1(x) == Sgn(x) * ((2 * Abs(x) + HOUR \div 10) \div (2 * (HOUR \div 10)))

\* a JS value that is an array, and one that is not
JsArray(items) == [isArray |-> TRUE, items |-> items]
JsObject == [isArray |-> FALSE, items |-> <<>>]

\* the settled results of a promise
Fulfilled(v) == [status |-> "fulfilled", value |-> v]
Rejected(reason) == [status |-> "rejected", reason |-> reason]

\* fetchConjunctionData called at a time: missDistance in m, relativeVelocity
\* in m/s, probability in 1e-7
fetchConjunctionData(at) ==
  << [satelliteId |-> "25544", objectName |-> "DEBRIS-2024-001",
      tca |-> ToISOString(at + HOUR), missDistance |-> 500,
      relativeVelocity |-> 14200, probability |-> 100, risk |-> "high"],
     [satelliteId |-> "25544", objectName |-> "DEBRIS-2024-045",
      tca |-> ToISOString(at + 24 * HOUR), missDistance |-> 2300,
      relativeVelocity |-> 8700, probability |-> 10, risk |-> "medium"],
     [satelliteId |-> "43013", objectName |-> "DEBRIS-2024-078",
      tca |-> ToISOString(at + 2 * HOUR), missDistance |-> 1800,
      relativeVelocity |-> 12100, probability |-> 50, risk |-> "medium"],
     [satelliteId |-> "43175", objectName |-> "DEBRIS-2024-123",
      tca |-> ToISOString(at + 48 * HOUR), missDistance |-> 5200,
      relativeVelocity |-> 6800, probability |-> 1, risk |-> "low"] >>

\* predictions of the CME source
PredictionAverage ==
  [predictedMethodName |-> "Average of all Methods",
   predictedArrivalTime |-> [format |-> "donki", date |-> 50 * HOUR],
   submissionTime |-> [format |-> "donki", date |-> 2 * HOUR],
   predictedMaxKpLowerRange |-> 4, predictedMaxKpUpperRange |-> 6]
PredictionOther ==
  [predictedMethodName |-> "WSA-ENLIL",
   predictedArrivalTime |-> [format |-> "donki", date |-> 52 * HOUR],
   submissionTime |-> [format |-> "donki", date |-> HOUR],
   predictedMaxKpLowerRange |-> 5, predictedMaxKpUpperRange |-> 7]

\* what the four sources of a run started at a time can settle to
ConjunctionResults(at) ==
  {Rejected("timeout of 10000ms exceeded"), Fulfilled(JsObject),
   Fulfilled(JsArray(fetchConjunctionData(at)))}
CmeResults ==
  {Rejected("Network Error"), Fulfilled(JsObject),
   Fulfilled(JsArray(<<PredictionOther>>)),
   Fulfilled(JsArray(<<PredictionOther, PredictionAverage>>))}
GeomagneticResults ==
  {Rejected("Request failed with status code 500"),
   Fulfilled(JsArray(<<[kp_index |-> 7], [kp_index |-> 5]>>)),
   Fulfilled(JsArray(<<[kp_index |-> 5], [kp_index |-> 7]>>))}
WeatherResults ==
  {Rejected("Network Error"), Fulfilled(JsArray(<<[message |-> "WATCH"]>>))}
SourceResults(at) ==
  [conjunction : ConjunctionResults(at), cme : CmeResults,
   geomagnetic : GeomagneticResults, weather : WeatherResults]

\* await Promise.all([...]): the first rejection is thrown
AwaitAll(results) ==
  IF results.conjunction.status = "rejected" THEN results.conjunction.reason
  ELSE IF results.cme.status = "rejected" THEN results.cme.reason
  ELSE IF results.geomagnetic.status = "rejected" THEN results.geomagnetic.reason
  ELSE IF results.weather.status = "rejected" THEN results.weather.reason
  ELSE "none"

\* await Promise.allSettled([...]) throws nothing
AwaitAllSettled(results) == "none"

\* result.status === 'fulfilled' && Array.isArray(result.value) ? result.value : []
ArrayOrEmpty(result) ==
  IF result.status = "fulfilled" /\ result.value.isArray
  THEN result.value.items ELSE <<>>

AllFailed(results) ==
  /\ results.conjunction.status = "rejected"
  /\ results.cme.status = "rejected"
  /\ results.geomagnetic.status = "rejected"
  /\ results.weather.status = "rejected"

generateSuggestedAction(conjunction, at) ==
  IF conjunction.risk = "high" /\ GetTime(conjunction.tca) - at < 24 * HOUR
  THEN [type |-> "evasive_maneuver", priority |-> "critical",
        description |-> [text |-> "Execute emergency evasive maneuver",
                         hoursToTCA |-> ToFixed1(GetTime(conjunction.tca) - at)],
        estimatedTimeToExecute |-> 15]
  ELSE IF conjunction.risk = "medium" /\ GetTime(conjunction.tca) - at < 72 * HOUR
  THEN [type |-> "orbit_adjustment", priority |-> "high",
        description |-> [text |-> "Plan orbit adjustment maneuver",
                         hoursToTCA |-> ToFixed1(GetTime(conjunction.tca) - at)],
        estimatedTimeToExecute |-> 30]
  ELSE [type |-> "attitude_change", priority |-> "medium",
        description |-> [text |-> "Monitor situation",
                         hoursToTCA |-> ToFixed1(GetTime(conjunction.tca) - at)],
        estimatedTimeToExecute |-> 5]

SatelliteExists(list, id) == \E i \in 1..Len(list) : list[i]["id"] = id

\* the conjunctions of satellites in the list
OfListed(conjunctionData, list) ==
  SelectSeq(conjunctionData, LAMBDA c : SatelliteExists(list, c.satelliteId))

\* { ...c, suggestedAction }
Enhanced(c, at) ==
  [satelliteId |-> c.satelliteId, objectName |-> c.objectName, tca |-> c.tca,
   missDistance |-> c.missDistance, relativeVelocity |-> c.relativeVelocity,
   probability |-> c.probability, risk |-> c.risk,
   suggestedAction |-> generateSuggestedAction(c, at)]

NewConjunctions(conjunctionData, list, at) ==
  [i \in 1..Len(OfListed(conjunctionData, list)) |->
     Enhanced(OfListed(conjunctionData, list)[i], at)]

RiskAlert(c, at) ==
  [kind |-> IF c.risk = "high" THEN "HIGH RISK" ELSE "MEDIUM RISK",
   objectName |-> c.objectName, satelliteId |-> c.satelliteId,
   hoursUntil |-> RoundHalfUp(GetTime(c.tca) - at, HOUR),
   missDistance |-> c.missDistance]

Alerting(conjunctionData, list) ==
  SelectSeq(OfListed(conjunctionData, list), LAMBDA c : c.risk \in {"high", "medium"})

ConjunctionAlerts(conjunctionData, list, at) ==
  [i \in 1..Len(Alerting(conjunctionData, list)) |->
     RiskAlert(Alerting(conjunctionData, list)[i], at)]

\* cmeEvent.find(p => p.predictedMethodName === 'Average of all Methods')
FindAverage(cmeEvent) ==
  SelectSeq(cmeEvent, LAMBDA p : p.predictedMethodName = "Average of all Methods")

CmeAlertOf(prediction) ==
  [kind |-> "CME PREDICTION", method |-> prediction.predictedMethodName,
   arrival |-> ToISOString(GetTime(prediction.predictedArrivalTime)),
   kpLower |-> prediction.predictedMaxKpLowerRange,
   kpUpper |-> prediction.predictedMaxKpUpperRange]

CmeAlerts(cmeEvent) ==
  IF FindAverage(cmeEvent) = <<>> THEN <<>>
  ELSE <<CmeAlertOf(FindAverage(cmeEvent)[1])>>

SpaceWeatherAlertOf(prediction, list) ==
  [id |-> <<"cme", prediction.predictedMethodName>>,
   type |-> "cme", severity |-> "medium",
   message |-> CmeAlertOf(prediction),
   timestamp |-> ToISOString(GetTime(prediction.submissionTime)),
   affectedSatellites |-> [i \in 1..Len(list) |-> list[i]["id"]],
   suggestedAction |-> [id |-> <<"action-cme", prediction.predictedMethodName>>,
                        type |-> "monitor", priority |-> "medium",
                        estimatedTimeToExecute |-> 15]]

\* the alerts the run appends to spaceWeatherAlerts
CmeSpaceWeatherAlerts(cmeEvent, list) ==
  IF FindAverage(cmeEvent) = <<>> \/ Len(list) = 0 THEN <<>>
  ELSE <<SpaceWeatherAlertOf(FindAverage(cmeEvent)[1], list)>>

GeomagneticAlerts(geomagneticData) ==
  IF Len(geomagneticData) > 0 /\ geomagneticData[Len(geomagneticData)].kp_index > 5
  THEN <<[kind |-> "GEOMAGNETIC STORM",
          kp_index |-> geomagneticData[Len(geomagneticData)].kp_index]>>
  ELSE <<>>

PriorityOrder(priority) ==
  CASE priority = "critical" -> 4
    [] priority = "high" -> 3
    [] priority = "medium" -> 2
    [] OTHER -> 1

\* an action put behind the actions of a sorted list that do not rank below it
InsertAction(sorted, a) ==
  SelectSeq(sorted, LAMBDA b : PriorityOrder(b.priority) >= PriorityOrder(a.priority))
    \o <<a>>
    \o SelectSeq(sorted, LAMBDA b : PriorityOrder(b.priority) < PriorityOrder(a.priority))

\* actions.sort((a, b) => priorityOrder[b.priority] - priorityOrder[a.priority])
RECURSIVE SortActions(_)
SortActions(actions) ==
  IF actions = <<>> THEN <<>>
  ELSE InsertAction(SortActions(SubSeq(actions, 1, Len(actions) - 1)),
                    actions[Len(actions)])

ConjunctionsOf(cs, id) == SelectSeq(cs, LAMBDA c : c.satelliteId = id)

ThreatOf(c, at) ==
  [type |-> "collision",
   severity |-> IF c.risk = "high" THEN 9 ELSE IF c.risk = "medium" THEN 6 ELSE 3,
   \* minutes * 60
   timeToImpact |-> GetTime(c.tca) - at,
   description |-> [objectName |-> c.objectName, missDistance |-> c.missDistance]]

\* cs.filter(c => c.suggestedAction).map(c => c.suggestedAction)
SuggestedActions(cs) ==
  [i \in 1..Len(SelectSeq(cs, LAMBDA c : "suggestedAction" \in DOMAIN c)) |->
     SelectSeq(cs, LAMBDA c : "suggestedAction" \in DOMAIN c)[i].suggestedAction]

\* the assessment whose recommended actions stay in the order of the conjunctions
AssessmentUnsorted(cs, id, at) ==
  [satelliteId |-> id,
   threatLevel |-> IF \E i \in 1..Len(cs) : cs[i].risk = "high" THEN "critical"
                   ELSE IF \E i \in 1..Len(cs) : cs[i].risk = "medium" THEN "high"
                   ELSE "medium",
   threats |-> [i \in 1..Len(cs) |-> ThreatOf(cs[i], at)],
   recommendedActions |-> SuggestedActions(cs),
   lastAssessment |-> ToISOString(at)]

AssessmentOf(cs, id, at) ==
  [satelliteId |-> id,
   threatLevel |-> IF \E i \in 1..Len(cs) : cs[i].risk = "high" THEN "critical"
                   ELSE IF \E i \in 1..Len(cs) : cs[i].risk = "medium" THEN "high"
                   ELSE "medium",
   threats |-> [i \in 1..Len(cs) |-> ThreatOf(cs[i], at)],
   recommendedActions |-> SortActions(SuggestedActions(cs)),
   lastAssessment |-> ToISOString(at)]

updateThreatAssessments(cs, list, at) ==
  [id \in { list[i]["id"] : i \in { j \in 1..Len(list) :
                                     ConjunctionsOf(cs, list[j]["id"]) # <<>> } } |->
     AssessmentOf(ConjunctionsOf(cs, id), id, at)]

\* error.message.includes('Network Error') || error.message.includes('ERR_NETWORK')
IsNetworkError(message) == message \in {"Network Error", "ERR_NETWORK"}

UnavailableAlert == [kind |-> "MONITORING UNAVAILABLE"]

Remove(s, k) == SubSeq(s, 1, k - 1) \o SubSeq(s, k + 1, Len(s))

MonitorInit ==
  /\ PropagatorIdle
  /\ kepler = NoKepler
  /\ stable = NoStable
  /\ objects = NoObjects
  /\ ListIdle
  /\ MonitorIdle
  /\ calls = <<>>
  /\ hook = NoHook

\* monitorThreats that also leaves offline mode when the list is empty
StartRunGoingOnline(list) ==
  /\ nRuns < MaxRuns
  /\ nRuns' = nRuns + 1
  /\ IF Len(list) = 0
     THEN /\ alerts' = <<>>
          /\ conjunctions' = <<>>
          /\ spaceWeatherAlerts' = <<>>
          /\ threatAssessments' = NoMap
          /\ isOfflineMode' = FALSE
          /\ lastRun' = [outcome |-> "cleared"]
          /\ UNCHANGED pending
     ELSE /\ Len(pending) < MaxPending
          /\ pending' = Append(pending, [satellites |-> list, startedAt |-> now])
          /\ UNCHANGED <<alerts, conjunctions, spaceWeatherAlerts, threatAssessments,
                         isOfflineMode, lastRun>>

\* monitorThreats up to its await, for the satellites list of its effect
StartRun(list) ==
  /\ nRuns < MaxRuns
  /\ nRuns' = nRuns + 1
  /\ IF Len(list) = 0
     THEN /\ alerts' = <<>>
          /\ conjunctions' = <<>>
          /\ spaceWeatherAlerts' = <<>>
          /\ threatAssessments' = NoMap
          /\ lastRun' = [outcome |-> "cleared"]
          /\ UNCHANGED <<isOfflineMode, pending>>
     ELSE /\ Len(pending) < MaxPending
          /\ pending' = Append(pending, [satellites |-> list, startedAt |-> now])
          /\ UNCHANGED <<alerts, conjunctions, spaceWeatherAlerts, threatAssessments,
                         isOfflineMode, lastRun>>

\* setSatellites: the monitoring effect runs again and calls monitorThreats
SetSatellites(list) ==
  /\ list # satellites
  /\ satellites' = list
  /\ StartRun(list)
  /\ UNCHANGED <<propagatorVars, kepler, stable, objects, calls, hook, simulators, simulationData,
                 created, nChanges, nTicks, now>>

\* the interval fires after 30 s
Poll ==
  /\ now' = now + PollInterval
  /\ StartRun(satellites)
  /\ UNCHANGED <<propagatorVars, kepler, stable, objects, calls, hook, listVars>>

\* the try block after the await, for a run's satellites and settled results
Settle(r, results) ==
  /\ isOfflineMode' = AllFailed(results)
  /\ spaceWeatherAlerts' =
       spaceWeatherAlerts \o CmeSpaceWeatherAlerts(ArrayOrEmpty(results.cme), r.satellites)
  /\ conjunctions' = NewConjunctions(ArrayOrEmpty(results.conjunction), r.satellites, now)
  /\ alerts' = ConjunctionAlerts(ArrayOrEmpty(results.conjunction), r.satellites, now)
                 \o CmeAlerts(ArrayOrEmpty(results.cme))
                 \o GeomagneticAlerts(ArrayOrEmpty(results.geomagnetic))
  /\ threatAssessments' =
       updateThreatAssessments(
         NewConjunctions(ArrayOrEmpty(results.conjunction), r.satellites, now),
         r.satellites, now)
  /\ lastRun' = [outcome |-> "completed", results |-> results,
                 satellites |-> r.satellites, at |-> now]

\* the catch block
Catch(message) ==
  IF IsNetworkError(message)
  THEN /\ lastRun' = [outcome |-> "network"]
       /\ UNCHANGED <<alerts, conjunctions, spaceWeatherAlerts, threatAssessments,
                      isOfflineMode>>
  ELSE /\ alerts' = Append(alerts, UnavailableAlert)
       /\ lastRun' = [outcome |-> "unavailable"]
       /\ UNCHANGED <<conjunctions, spaceWeatherAlerts, threatAssessments,
                      isOfflineMode>>

\* the fetches of the k-th pending run settle and the run goes on
Complete(k) ==
  /\ k <= Len(pending)
  /\ \E results \in SourceResults(pending[k].startedAt) :
       IF AwaitAllSettled(results) = "none"
       THEN Settle(pending[k], results)
       ELSE Catch(AwaitAllSettled(results))
  /\ pending' = Remove(pending, k)
  /\ UNCHANGED <<propagatorVars, kepler, stable, objects, calls, hook, listVars, now, nRuns>>

MonitorNext ==
  \/ \E list \in MonitoredLists : SetSatellites(list)
  \/ Poll
  \/ \E k \in 1..MaxPending : Complete(k)

SpecMonitor == MonitorInit /\ [][MonitorNext]_vars

\* the alerts of some kinds, in their order
OfKind(kinds) == SelectSeq(alerts, LAMBDA a : a.kind \in kinds)

\* C17: a monitoring run whose fetches settled completes whatever subset of
\* the four sources rejected: a rejected or non-array source contributes the
\* empty data set, conjunctions, alerts and threat assessments are set from the
\* data of the sources that fulfilled, and no "monitoring service temporarily
\* unavailable" alert is added.
C17_RejectionsTolerated ==
  lastRun.outcome \notin {"none", "cleared"} =>
    /\ lastRun.outcome = "completed"
    /\ OfKind({"MONITORING UNAVAILABLE"}) = <<>>
    /\ IF lastRun.results.conjunction \in
            { Fulfilled(JsArray(fetchConjunctionData(at))) : at \in 0..lastRun.at }
       THEN /\ Len(conjunctions) =
                 Len(OfListed(lastRun.results.conjunction.value.items, lastRun.satellites))
            /\ \A i \in 1..Len(conjunctions) :
                 /\ SatelliteExists(lastRun.satellites, conjunctions[i].satelliteId)
                 /\ conjunctions[i].satelliteId \in DOMAIN threatAssessments
            /\ Len(conjunctions) > 0
            /\ Len(OfKind({"HIGH RISK", "MEDIUM RISK"})) = Len(conjunctions)
       ELSE /\ conjunctions = <<>>
            /\ OfKind({"HIGH RISK", "MEDIUM RISK"}) = <<>>
            /\ threatAssessments = NoMap
    /\ IF lastRun.results.cme = Fulfilled(JsArray(<<PredictionOther, PredictionAverage>>))
       THEN OfKind({"CME PREDICTION"}) = <<CmeAlertOf(PredictionAverage)>>
       ELSE OfKind({"CME PREDICTION"}) = <<>>
    /\ IF lastRun.results.geomagnetic =
            Fulfilled(JsArray(<<[kp_index |-> 5], [kp_index |-> 7]>>))
       THEN OfKind({"GEOMAGNETIC STORM"}) =
              <<[kind |-> "GEOMAGNETIC STORM", kp_index |-> 7]>>
       ELSE OfKind({"GEOMAGNETIC STORM"}) = <<>>
    /\ isOfflineMode = (\A s \in DOMAIN lastRun.results :
                          lastRun.results[s].status = "rejected")

\* a run in which only the conjunction source fulfilled
C17_Witness ==
  /\ lastRun.outcome = "completed"
  /\ lastRun.results.conjunction.status = "fulfilled"
  /\ lastRun.results.conjunction.value.isArray
  /\ lastRun.results.cme.status = "rejected"
  /\ lastRun.results.geomagnetic.status = "rejected"
  /\ lastRun.results.weather.status = "rejected"
  /\ Len(conjunctions) = 3
  /\ Len(alerts) = 3
  /\ DOMAIN threatAssessments = {"25544", "43013"}
  /\ ~isOfflineMode

\* a run in which every source rejected
C17_AllRejectedWitness ==
  /\ lastRun.outcome = "completed"
  /\ \A s \in DOMAIN lastRun.results : lastRun.results[s].status = "rejected"
  /\ alerts = <<>>
  /\ conjunctions = <<>>
  /\ isOfflineMode

\* C18: after each completed monitoring run the alerts, conjunctions and
\* spaceWeatherAlerts state are what one run on the data fetched in that run
\* and the run's satellites list leaves: nothing of an earlier run remains.
C18_RecomputedEachRun ==
  lastRun.outcome = "completed" =>
    /\ conjunctions =
         NewConjunctions(ArrayOrEmpty(lastRun.results.conjunction),
                         lastRun.satellites, lastRun.at)
    /\ alerts =
         ConjunctionAlerts(ArrayOrEmpty(lastRun.results.conjunction),
                           lastRun.satellites, lastRun.at)
           \o CmeAlerts(ArrayOrEmpty(lastRun.results.cme))
           \o GeomagneticAlerts(ArrayOrEmpty(lastRun.results.geomagnetic))
    /\ spaceWeatherAlerts =
         CmeSpaceWeatherAlerts(ArrayOrEmpty(lastRun.results.cme), lastRun.satellites)


\* no run that awaits its fetches was started for the current list
CurrentListSettled == \A k \in 1..Len(pending) : pending[k].satellites # satellites

\* C23: once the run started for the current satellites list has completed, the
\* state holds no conjunction, conjunction alert or threat assessment of a
\* satellite that is not in the list, whatever run of an earlier list completes
\* later; with an empty list, alerts and conjunctions are empty.
C23_NoStaleOverwrite ==
  CurrentListSettled =>
    /\ \A i \in 1..Len(conjunctions) :
         SatelliteExists(satellites, conjunctions[i].satelliteId)
    /\ \A i \in 1..Len(alerts) :
         alerts[i].kind \in {"HIGH RISK", "MEDIUM RISK"} =>
           SatelliteExists(satellites, alerts[i].satelliteId)
    /\ \A id \in DOMAIN threatAssessments : SatelliteExists(satellites, id)
    /\ satellites = <<>> => alerts = <<>> /\ conjunctions = <<>>

\* C24: a monitorThreats run that starts with an empty satellites list sets
\* alerts, conjunctions, spaceWeatherAlerts and threatAssessments to empty,
\* issues no fetch and leaves isOfflineMode as it is.
C24_EmptyListClears ==
  [][nRuns' = nRuns + 1 /\ satellites' = <<>> =>
       /\ alerts' = <<>>
       /\ conjunctions' = <<>>
       /\ spaceWeatherAlerts' = <<>>
       /\ threatAssessments' = NoMap
       /\ pending' = pending
       /\ isOfflineMode' = isOfflineMode]_vars

\* the list was emptied after a run in which every source rejected
C24_Witness ==
  /\ satellites = <<>>
  /\ lastRun = [outcome |-> "cleared"]
  /\ nRuns = 2
  /\ pending = <<>>
  /\ isOfflineMode
  /\ alerts = <<>>
  /\ threatAssessments = NoMap

\* calculateThreatLevel: missDistance in m, probability in 1e-7
calculateThreatLevel(missDistance, probability) ==
  IF missDistance < 1 * KM /\ probability > 100 THEN "high"
  ELSE IF missDistance < 5 * KM /\ probability > 10 THEN "medium"
  ELSE "low"

\* C30: every conjunction event of fetchConjunctionData carries the risk tier
\* that calculateThreatLevel gives its missDistance and probability.
C30_RiskIsThreatLevel ==
  \A i \in 1..Len(conjunctions) :
    conjunctions[i].risk =
      calculateThreatLevel(conjunctions[i].missDistance, conjunctions[i].probability)
(***************************************************************************)
(* The API module: each fetch function makes one axios.get and gives its   *)
(* caller a value or an error.  A response body in TLE format is the       *)
(* sequence of its lines.                                                  *)
(***************************************************************************)
MaxCalls == 2

\* what axios.get settles to
Response(data) == [kind |-> "response", data |-> data]
AxiosError(code, message) ==
  [kind |-> "error", isAxiosError |-> TRUE, code |-> code, message |-> message]
PlainError(message) ==
  [kind |-> "error", isAxiosError |-> FALSE, code |-> "", message |-> message]
NetworkFailure == AxiosError("ERR_NETWORK", "Network Error")
Failures ==
  {NetworkFailure,
   AxiosError("ECONNABORTED", "timeout of 10000ms exceeded"),
   AxiosError("ERR_BAD_RESPONSE", "Request failed with status code 500")}

\* what the caller of a fetch function gets
Returned(v) == [outcome |-> "returned", value |-> v]
Raised(e) == [outcome |-> "raised", error |-> e]

\* a line of a body: its text between leading and trailing white space
Line(text) == [text |-> text, padded |-> TRUE]
Trim(line) == line.text
\* response.data.split('\n').filter(line => line.trim())
NonBlankLines(data) == SelectSeq(data, LAMBDA line : Trim(line) # "")

TleBodies ==
  { <<Line("ISS (ZARYA)"), Line("1 25544U"), Line("2 25544"), Line("")>>,
    <<Line("ISS (ZARYA)"), Line(""), Line("1 25544U"), Line("2 25544"),
      Line("CSS (TIANHE)"), Line("1 48274U")>>,
    <<Line("No GP data found")>>,
    <<Line(""), Line("ISS (ZARYA)"), Line("1 25544U"), Line("2 25544"), Line(""),
      Line("CSS (TIANHE)"), Line("1 48274U"), Line("2 48274"), Line("")>>,
    <<Line("")>> }
JsonBodies == { <<>>, <<[time_tag |-> "2025-10-11", kp_index |-> 4]>> }

\* the loop that wants a line after each group of three
RECURSIVE TleLoopShort(_, _, _)
TleLoopShort(lines, i, parsed) ==
  IF i < Len(lines)
  THEN TleLoopShort(lines, i + 3,
                    IF i + 3 < Len(lines)
                    THEN Append(parsed, [name |-> Trim(lines[i + 1]),
                                         line1 |-> Trim(lines[i + 2]),
                                         line2 |-> Trim(lines[i + 3])])
                    ELSE parsed)
  ELSE parsed

\* for (let i = 0; i < lines.length; i += 3) if (i + 2 < lines.length) push
RECURSIVE TleLoop(_, _, _)
TleLoop(lines, i, parsed) ==
  IF i < Len(lines)
  THEN TleLoop(lines, i + 3,
               IF i + 2 < Len(lines)
               THEN Append(parsed, [name |-> Trim(lines[i + 1]),
                                        line1 |-> Trim(lines[i + 2]),
                                        line2 |-> Trim(lines[i + 3])])
               ELSE parsed)
  ELSE parsed

fetchTLEFromCelesTrak(settled) ==
  IF settled.kind = "response"
  THEN Returned(TleLoop(NonBlankLines(settled.data), 0, <<>>))
  ELSE Raised(settled)

fetchTLEByNoradId(settled) ==
  IF settled.kind = "response"
  THEN IF Len(NonBlankLines(settled.data)) >= 3
       THEN Returned([name |-> Trim(NonBlankLines(settled.data)[1]),
                      line1 |-> Trim(NonBlankLines(settled.data)[2]),
                      line2 |-> Trim(NonBlankLines(settled.data)[3])])
       ELSE Raised(PlainError("Invalid TLE data received"))
  ELSE Raised(settled)

\* catch: return [] for an axios network error, throw the error otherwise
EmptyOnNetworkError(error) ==
  IF error.isAxiosError /\ (error.code = "ERR_NETWORK" \/ IsNetworkError(error.message))
  THEN Returned(<<>>)
  ELSE Raised(error)

fetchCMEData(settled) ==
  IF settled.kind = "response" THEN Returned(settled.data)
  ELSE EmptyOnNetworkError(settled)

fetchCMEAnalysis(settled) ==
  IF settled.kind = "response" THEN Returned(settled.data) ELSE Raised(settled)

fetchGeomagneticStorm(settled) ==
  IF settled.kind = "response" THEN Returned(settled.data)
  ELSE EmptyOnNetworkError(settled)

fetchSolarWind(settled) ==
  IF settled.kind = "response" THEN Returned(settled.data) ELSE Raised(settled)

fetchSpaceWeatherAlerts(settled) ==
  IF settled.kind = "response" THEN Returned(settled.data)
  ELSE EmptyOnNetworkError(settled)

TleSettled == { Response(b) : b \in TleBodies } \cup Failures
JsonSettled == { Response(b) : b \in JsonBodies } \cup Failures

\* the record of a call: what its request settled to and what the caller got
Call(function, settled, result) ==
  [function |-> function, settled |-> settled, result |-> result]

FetchInit ==
  /\ PropagatorIdle
  /\ kepler = NoKepler
  /\ stable = NoStable
  /\ objects = NoObjects
  /\ ListIdle
  /\ MonitorIdle
  /\ calls = <<>>
  /\ hook = NoHook

CallFetchTLEFromCelesTrak ==
  /\ Len(calls) < MaxCalls
  /\ \E s \in TleSettled : calls' = Append(calls, Call("fetchTLEFromCelesTrak", s, fetchTLEFromCelesTrak(s)))
  /\ UNCHANGED <<propagatorVars, kepler, stable, objects, listVars, monitorVars, hook>>

CallFetchTLEByNoradId ==
  /\ Len(calls) < MaxCalls
  /\ \E s \in TleSettled : calls' = Append(calls, Call("fetchTLEByNoradId", s, fetchTLEByNoradId(s)))
  /\ UNCHANGED <<propagatorVars, kepler, stable, objects, listVars, monitorVars, hook>>

CallFetchCMEData ==
  /\ Len(calls) < MaxCalls
  /\ \E s \in JsonSettled : calls' = Append(calls, Call("fetchCMEData", s, fetchCMEData(s)))
  /\ UNCHANGED <<propagatorVars, kepler, stable, objects, listVars, monitorVars, hook>>

CallFetchCMEAnalysis ==
  /\ Len(calls) < MaxCalls
  /\ \E s \in JsonSettled : calls' = Append(calls, Call("fetchCMEAnalysis", s, fetchCMEAnalysis(s)))
  /\ UNCHANGED <<propagatorVars, kepler, stable, objects, listVars, monitorVars, hook>>

CallFetchGeomagneticStorm ==
  /\ Len(calls) < MaxCalls
  /\ \E s \in JsonSettled : calls' = Append(calls, Call("fetchGeomagneticStorm", s, fetchGeomagneticStorm(s)))
  /\ UNCHANGED <<propagatorVars, kepler, stable, objects, listVars, monitorVars, hook>>

CallFetchSolarWind ==
  /\ Len(calls) < MaxCalls
  /\ \E s \in JsonSettled : calls' = Append(calls, Call("fetchSolarWind", s, fetchSolarWind(s)))
  /\ UNCHANGED <<propagatorVars, kepler, stable, objects, listVars, monitorVars, hook>>

CallFetchSpaceWeatherAlerts ==
  /\ Len(calls) < MaxCalls
  /\ \E s \in JsonSettled : calls' = Append(calls, Call("fetchSpaceWeatherAlerts", s, fetchSpaceWeatherAlerts(s)))
  /\ UNCHANGED <<propagatorVars, kepler, stable, objects, listVars, monitorVars, hook>>

FetchNext ==
  \/ CallFetchTLEFromCelesTrak
  \/ CallFetchTLEByNoradId
  \/ CallFetchCMEData
  \/ CallFetchCMEAnalysis
  \/ CallFetchGeomagneticStorm
  \/ CallFetchSolarWind
  \/ CallFetchSpaceWeatherAlerts

SpecFetch == FetchInit /\ [][FetchNext]_vars

\* C19: every fetch function answers a network connectivity failure of its
\* request by returning an empty result set (or mock data); none raises the
\* error to its caller.
C19_NetworkFailureAbsorbed ==
  \A i \in 1..Len(calls) :
    calls[i].settled = NetworkFailure => calls[i].result = Returned(<<>>)


\* the texts of the lines of a body that are not blank, in order
NonBlankTexts(data) ==
  [i \in 1..Len(SelectSeq(data, LAMBDA line : line.text # "")) |->
     SelectSeq(data, LAMBDA line : line.text # "")[i].text]

\* the records of the groups of three among some texts
GroupsOfThree(texts) ==
  [k \in 1..(Len(texts) \div 3) |->
     [name |-> texts[3 * k - 2], line1 |-> texts[3 * k - 1], line2 |-> texts[3 * k]]]

\* C27: fetchTLEFromCelesTrak turns a response with n non-blank lines into
\* floor(n / 3) records, record k holding the trimmed non-blank lines 3k, 3k + 1
\* and 3k + 2; blank lines and a trailing group of one or two lines are left out
\* without an error.  fetchTLEByNoradId raises 'Invalid TLE data received' for
\* fewer than 3 non-blank lines.
C27_TleRecords ==
  \A i \in 1..Len(calls) :
    calls[i].settled.kind = "response" =>
      /\ calls[i].function = "fetchTLEFromCelesTrak" =>
           calls[i].result = Returned(GroupsOfThree(NonBlankTexts(calls[i].settled.data)))
      /\ calls[i].function = "fetchTLEByNoradId" =>
           IF Len(NonBlankTexts(calls[i].settled.data)) < 3
           THEN calls[i].result = Raised(PlainError("Invalid TLE data received"))
           ELSE calls[i].result =
                  Returned(GroupsOfThree(NonBlankTexts(calls[i].settled.data))[1])

\* a body of two records among blank lines, and a body of one line
C27_Witness ==
  /\ Len(calls) = 2
  /\ calls[1].function = "fetchTLEFromCelesTrak"
  /\ calls[1].settled.kind = "response"
  /\ Len(calls[1].settled.data) = 9
  /\ Len(calls[1].result.value) = 2
  /\ calls[1].result.value[2] =
       [name |-> "CSS (TIANHE)", line1 |-> "1 48274U", line2 |-> "2 48274"]
  /\ calls[2].function = "fetchTLEByNoradId"
  /\ calls[2].settled = Response(<<Line("No GP data found")>>)
  /\ calls[2].result.outcome = "raised"
(***************************************************************************)
(* calculatePosition over long time steps: the distance of the stored      *)
(* position from the origin                                                *)
(***************************************************************************)
\* time steps up to a full orbit of about 5400 s
RadiusDeltas == {1, 60, 600, 1800, 5400}

RadiusNext == \E dt \in RadiusDeltas : Step(<<dt>>)

SpecRadius == Init /\ [][RadiusNext]_vars

\* Math.sqrt(x**2 + y**2 + z**2) of the stored position, in m
DistanceFromOrigin == Hypot(sim.position.x.v, sim.position.y.v, sim.position.z.v)

\* a * (1 - e * cos E) at the elapsed time, in m
RadiusNow ==
  OrbitalRadius(sim.orbitalElements,
                solveKeplersEquation(CurrentMeanAnomaly(sim.orbitalElements, sim.time),
                                     sim.orbitalElements.eccentricity))

\* the rounding of the fixed-point products, in m
RadiusTolerance == KM \div 50

\* C20: the distance from the origin of the position stored by
\* calculatePosition is the orbital radius a * (1 - e * cos E), so it is within
\* a * e of the semi-major axis; for altitude 408, inclination 51.6, LEO,
\* eccentricity 0.0003, argumentOfPeriapsis 0 and 5400 s it is within 3 km of
\* 6779 km.
C20_DistanceIsRadius ==
  lastOp = "calculatePosition" =>
    /\ IsFin(sim.position.x) /\ IsFin(sim.position.y) /\ IsFin(sim.position.z)
    /\ Abs(DistanceFromOrigin - RadiusNow) <= RadiusTolerance
    /\ Abs(DistanceFromOrigin - sim.orbitalElements.semiMajorAxis)
         <= Mul(sim.orbitalElements.semiMajorAxis, sim.orbitalElements.eccentricity)
              + RadiusTolerance
    /\ (constructed = LeoIss /\ sim.time = 5400) =>
         Abs(DistanceFromOrigin - 6779 * KM) <= 3 * KM

\* the propagator of the example after calculatePosition(5400)
C20_Witness ==
  /\ constructed = LeoIss
  /\ lastOp = "calculatePosition"
  /\ arg = <<5400>>
  /\ sim.time = 5400
  /\ sim.orbitalElements.eccentricity = 3 * (SCALE \div 10000)
  /\ Abs(DistanceFromOrigin - 6779 * KM) <= 3 * KM

(***************************************************************************)
(* useSatelliteData: the simulators map and the simulation interval        *)
(***************************************************************************)
\* the satellites the App can add
HookSatellites == {LeoIss, PolarSat, LeoBare}

\* the effect on [satellites] that puts only newly constructed propagators
\* into the map
hookSimulatorsOfNewOnly(list, sims) ==
  [id \in SatelliteIds(list) \ DOMAIN sims |->
     Constructor(SatelliteWithId(list, id))]

\* newSimulators of the effect on [satellites]: for every satellite of the
\* list the propagator the map has for its id, or else a new one
hookSimulators(list, sims) ==
  [id \in SatelliteIds(list) |->
     IF id \in DOMAIN sims
     THEN sims[id]
     ELSE Constructor(SatelliteWithId(list, id))]

\* the effect on [satellites], run with the new list
InitializeHookSimulators(list) ==
  /\ simulators' = hookSimulators(list, simulators)
  /\ created' = CreatedAfter(list, simulators)

\* satellites.filter(sat => sat.id !== id)
RECURSIVE WithoutId(_, _)
WithoutId(list, id) ==
  IF list = <<>> THEN <<>>
  ELSE IF Head(list).id = id THEN WithoutId(Tail(list), id)
       ELSE <<Head(list)>> \o WithoutId(Tail(list), id)

HookInit ==
  /\ satellites = <<>>
  /\ simulators = NoMap
  /\ simulationData = NoMap
  /\ created = NoMap
  /\ nChanges = 0
  /\ nTicks = 0
  /\ PropagatorIdle
  /\ kepler = NoKepler
  /\ stable = NoStable
  /\ objects = NoObjects
  /\ MonitorIdle
  /\ calls = <<>>
  /\ hook = NoHook

\* App.handleAddSatellite: setSatellites([...satellites, satellite]), then the
\* effect on [satellites]
HandleAddSatellite(d) ==
  /\ nChanges < MaxChanges
  /\ d.id \notin SatelliteIds(satellites)
  /\ satellites' = Append(satellites, d)
  /\ InitializeHookSimulators(Append(satellites, d))
  /\ nChanges' = nChanges + 1
  /\ UNCHANGED <<propagatorVars, kepler, stable, objects, monitorVars, calls, hook,
                 simulationData, nTicks>>

\* App.handleRemoveSatellite: setSatellites(satellites.filter(...)), then the
\* effect on [satellites]
HandleRemoveSatellite(d) ==
  /\ nChanges < MaxChanges
  /\ d.id \in SatelliteIds(satellites)
  /\ satellites' = WithoutId(satellites, d.id)
  /\ InitializeHookSimulators(WithoutId(satellites, d.id))
  /\ nChanges' = nChanges + 1
  /\ UNCHANGED <<propagatorVars, kepler, stable, objects, monitorVars, calls, hook,
                 simulationData, nTicks>>

\* startSimulation: setInterval, and the id stored in window.simulationInterval
StartSimulation ==
  /\ hook.issued < MaxTimers
  /\ hook' = [isSimulationRunning |-> TRUE,
              simulationInterval |-> hook.issued + 1,
              active |-> hook.active \cup {hook.issued + 1},
              issued |-> hook.issued + 1,
              lastCall |-> "startSimulation"]
  /\ UNCHANGED <<propagatorVars, kepler, stable, objects, monitorVars, calls, listVars>>

\* stopSimulation: clearInterval(window.simulationInterval) when it is set
StopSimulation ==
  /\ hook' = [hook EXCEPT !.isSimulationRunning = FALSE,
                          !.active = IF hook.simulationInterval # 0
                                     THEN hook.active \ {hook.simulationInterval}
                                     ELSE hook.active,
                          !.lastCall = "stopSimulation"]
  /\ UNCHANGED <<propagatorVars, kepler, stable, objects, monitorVars, calls, listVars>>

\* the satellite with the position and velocity of its propagator
\* (the tick's setSatellites)
WithCurrentState(sat, s) ==
  Spread(sat, [currentPosition |-> s.position, currentVelocity |-> s.velocity])

\* the callback of interval t: every propagator of the map steps by 60 s and
\* its satellite gets the new position; the effect on [satellites] runs again
SimulationTick(t) ==
  /\ t \in hook.active
  /\ nTicks < MaxTicks
  /\ simulators' = [id \in DOMAIN simulators |-> calculatePosition(simulators[id], 60)]
  /\ satellites' =
       [i \in 1..Len(satellites) |->
          IF satellites[i].id \in DOMAIN simulators
          THEN WithCurrentState(satellites[i],
                                calculatePosition(simulators[satellites[i].id], 60))
          ELSE satellites[i]]
  /\ nTicks' = nTicks + 1
  /\ UNCHANGED <<propagatorVars, kepler, stable, objects, monitorVars, calls, hook,
                 simulationData, created, nChanges>>

HookNext ==
  \/ \E d \in HookSatellites : HandleAddSatellite(d)
  \/ \E d \in HookSatellites : HandleRemoveSatellite(d)
  \/ StartSimulation
  \/ StopSimulation
  \/ \E t \in 1..MaxTimers : SimulationTick(t)

SpecHook == HookInit /\ [][HookNext]_vars

\* C21: the keys of the simulators map are the ids of the satellites list; a
\* change of the list gives an added satellite a new propagator, drops the
\* propagator of a removed one, and keeps the instance and the elapsed time of
\* every satellite that stays.
C21_SimulatorsFollowList ==
  /\ [](DOMAIN simulators = SatelliteIds(satellites))
  /\ [][SatelliteIds(satellites') # SatelliteIds(satellites) =>
          /\ \A id \in SatelliteIds(satellites') \ SatelliteIds(satellites) :
               /\ simulators'[id].time = 0
               /\ created'[id] = (IF id \in DOMAIN created THEN created[id] ELSE 0) + 1
          /\ \A id \in SatelliteIds(satellites) \ SatelliteIds(satellites') :
               id \notin DOMAIN simulators'
          /\ \A id \in SatelliteIds(satellites) \cap SatelliteIds(satellites') :
               /\ created'[id] = created[id]
               /\ simulators'[id] = simulators[id]]_vars

\* two satellites were added and stepped, and one of them was removed: the
\* other keeps its propagator and its elapsed time
C21_Witness ==
  /\ Len(satellites) = 1
  /\ nChanges = 3
  /\ DOMAIN simulators = SatelliteIds(satellites)
  /\ \E id \in DOMAIN simulators : simulators[id].time = 60 /\ created[id] = 1
  /\ \E id \in DOMAIN created : id \notin DOMAIN simulators

\* C22: once the last call made is stopSimulation, no simulation interval is
\* active and no step advances a propagator.
C22_StoppedMeansNoTimer ==
  /\ [](hook.lastCall = "stopSimulation" => hook.active = {})
  /\ [][hook.lastCall = "stopSimulation" /\ hook'.lastCall = "stopSimulation" =>
          \A id \in (DOMAIN simulators) \cap (DOMAIN simulators') :
            simulators'[id].time = simulators[id].time]_vars

(***************************************************************************)
(* useSatelliteData on the API module: the four sources of a monitorThreats *)
(* run are the fetch functions, and what a run sees of a request is what   *)
(* its fetch function makes of it.                                         *)
(***************************************************************************)
\* the settled promise of an async fetch function
SettledPromise(result) ==
  IF result.outcome = "returned"
  THEN Fulfilled(JsArray(result.value))
  ELSE Rejected(result.error.message)

\* what Promise.allSettled gives a run started at a time, for the outcome of
\* the CME source and the requests of the two NOAA sources; the conjunction
\* source makes no request
SettledSources(at, cme, geomagnetic, weather) ==
  [conjunction |-> Fulfilled(JsArray(fetchConjunctionData(at))),
   cme |-> cme,
   geomagnetic |-> SettledPromise(fetchGeomagneticStorm(geomagnetic)),
   weather |-> SettledPromise(fetchSpaceWeatherAlerts(weather))]

\* the fetches of the k-th pending run settle, each request in its own way,
\* and the run goes on
CompleteOnNetwork(k) ==
  /\ k <= Len(pending)
  /\ \E cme \in CmeResults, geomagnetic \in JsonSettled, weather \in JsonSettled :
       /\ Settle(pending[k],
                 SettledSources(pending[k].startedAt, cme, geomagnetic, weather))
       /\ calls' = calls \o
            << Call("fetchGeomagneticStorm", geomagnetic,
                    fetchGeomagneticStorm(geomagnetic)),
               Call("fetchSpaceWeatherAlerts", weather,
                    fetchSpaceWeatherAlerts(weather)) >>
  /\ pending' = Remove(pending, k)
  /\ UNCHANGED <<propagatorVars, kepler, stable, objects, hook, listVars, now, nRuns>>

OutageNext ==
  \/ \E list \in MonitoredLists : SetSatellites(list)
  \/ Poll
  \/ \E k \in 1..MaxPending : CompleteOnNetwork(k)

SpecOutage == MonitorInit /\ [][OutageNext]_vars

\* every request of the run that completed last failed for want of a network
\* connection, and so did the CME source
LastRunUnreachable ==
  /\ Len(calls) >= 2
  /\ calls[Len(calls) - 1].settled = NetworkFailure
  /\ calls[Len(calls)].settled = NetworkFailure
  /\ lastRun.results.cme = Rejected("Network Error")

\* C25: a completed monitoring run leaves isOfflineMode true if every source
\* was unreachable for want of a network connection, and false if a source
\* delivered data.
C25_OfflineWhenUnreachable ==
  lastRun.outcome = "completed" =>
    /\ LastRunUnreachable => isOfflineMode
    /\ (\E i \in {Len(calls) - 1, Len(calls)} : calls[i].settled.kind = "response")
         => ~isOfflineMode

(***************************************************************************)
(* updateThreatAssessments on conjunctions of every risk tier              *)
(***************************************************************************)
MaxConjunctions == 3

\* a conjunction event of a satellite, due some hours after time 0
ConjunctionOf(id, risk, hours) ==
  [satelliteId |-> id, objectName |-> "DEBRIS", tca |-> ToISOString(hours * HOUR),
   missDistance |-> 500, relativeVelocity |-> 14200, probability |-> 100, risk |-> risk]

\* conjunctions as monitorThreats passes them, with their suggested action, and
\* one without
AssessedConjunctions ==
  { Enhanced(ConjunctionOf(id, c[1], c[2]), 0) :
      id \in {"25544", "43013"},
      c \in {<<"high", 1>>, <<"high", 48>>, <<"medium", 2>>, <<"low", 48>>} }
    \cup { ConjunctionOf(id, "low", 48) : id \in {"25544", "43013"} }

RECURSIVE SeqsUpTo(_, _)
SeqsUpTo(S, n) ==
  IF n = 0 THEN {<<>>}
  ELSE SeqsUpTo(S, n - 1) \cup
       { Append(s, x) : s \in { t \in SeqsUpTo(S, n - 1) : Len(t) = n - 1 }, x \in S }

\* setConjunctions(newConjunctions); updateThreatAssessments(newConjunctions)
AssessThreats(cs, list) ==
  /\ satellites' = list
  /\ conjunctions' = cs
  /\ threatAssessments' = updateThreatAssessments(cs, list, now)
  /\ lastRun' = [outcome |-> "assessed"]
  /\ UNCHANGED <<propagatorVars, kepler, stable, objects, calls, hook,
                 simulators, simulationData, created, nChanges, nTicks,
                 alerts, spaceWeatherAlerts, isOfflineMode, pending, now, nRuns>>

\* one call, on a hook that has not run yet
AssessNext ==
  /\ lastRun.outcome = "none"
  /\ \E cs \in SeqsUpTo(AssessedConjunctions, MaxConjunctions), list \in MonitoredLists :
       AssessThreats(cs, list)

SpecAssess == MonitorInit /\ [][AssessNext]_vars

Listed(id) == SatelliteExists(satellites, id)
RisksOf(id) == { conjunctions[i].risk : i \in { j \in 1..Len(conjunctions) :
                                                 conjunctions[j].satelliteId = id } }

\* C26: a satellite of the list has an assessment iff a conjunction has its
\* id; the threatLevel is critical iff one of its conjunctions has risk high,
\* high iff none is high and one is medium, and medium otherwise; the
\* recommendedActions are in non-increasing priority.
C26_AssessmentOfConjunctions ==
  /\ \A id \in DOMAIN threatAssessments : Listed(id)
  /\ \A i \in 1..Len(satellites) :
       satellites[i]["id"] \in DOMAIN threatAssessments
         <=> RisksOf(satellites[i]["id"]) # {}
  /\ \A id \in DOMAIN threatAssessments :
       /\ threatAssessments[id].threatLevel = "critical" <=> "high" \in RisksOf(id)
       /\ threatAssessments[id].threatLevel = "high"
            <=> ("high" \notin RisksOf(id) /\ "medium" \in RisksOf(id))
       /\ threatAssessments[id].threatLevel = "medium"
            <=> ("high" \notin RisksOf(id) /\ "medium" \notin RisksOf(id))
       /\ \A i \in 1..Len(threatAssessments[id].recommendedActions) - 1 :
            PriorityOrder(threatAssessments[id].recommendedActions[i].priority)
              >= PriorityOrder(threatAssessments[id].recommendedActions[i + 1].priority)
       /\ Len(threatAssessments[id].recommendedActions) =
            Cardinality({ j \in 1..Len(conjunctions) :
                            /\ conjunctions[j].satelliteId = id
                            /\ "suggestedAction" \in DOMAIN conjunctions[j] })

\* three conjunctions of one satellite whose actions arrive in rising priority
C26_Witness ==
  /\ lastRun.outcome = "assessed"
  /\ Len(conjunctions) = 3
  /\ DOMAIN threatAssessments = {"25544"}
  /\ conjunctions[1].risk = "low" /\ "suggestedAction" \in DOMAIN conjunctions[1]
  /\ conjunctions[2].risk = "medium"
  /\ conjunctions[3].risk = "high"
  /\ threatAssessments["25544"].threatLevel = "critical"
  /\ Len(threatAssessments["25544"].recommendedActions) = 3
  /\ threatAssessments["25544"].recommendedActions[1].priority = "critical"
  /\ threatAssessments["25544"].recommendedActions[3].priority = "medium"

(***************************************************************************)
(* Descriptors that hold the fields of both orbit families, and updates    *)
(* that change the family                                                  *)
(***************************************************************************)
MixedLeo ==
  [id |-> "s6", orbitType |-> "LEO", altitude |-> 408 * KM,
   inclination |-> 51600, velocity |-> 7660,
   eccentricity |-> 3000, argumentOfPeriapsis |-> 30 * DEG,
   rightAscensionOfAscendingNode |-> 45 * DEG, meanAnomaly |-> 90 * DEG]
MixedPolar == [MixedLeo EXCEPT !["id"] = "s7", !["orbitType"] = "Polar"]
FamilyDescriptors == {LeoIss, PolarSat, MixedLeo, MixedPolar}

FamilyUpdates ==
  { [orbitType |-> "Polar"],
    [orbitType |-> "LEO"],
    [orbitType |-> "Polar", rightAscensionOfAscendingNode |-> 10 * DEG],
    [argumentOfPeriapsis |-> 60 * DEG, meanAnomaly |-> 20 * DEG] }

FamilyInit ==
  /\ \E d \in FamilyDescriptors : sim = Constructor(d) /\ constructed = d
  /\ lastOp = "constructor"
  /\ prevOp = "none"
  /\ arg = <<>>
  /\ ret = <<>>
  /\ applied = <<>>
  /\ nSteps = 0
  /\ run = NoRun
  /\ kepler = NoKepler
  /\ stable = NoStable
  /\ ListIdle
  /\ objects = NoObjects
  /\ MonitorIdle
  /\ calls = <<>>
  /\ hook = NoHook

FamilyNext ==
  \/ Step(<<60>>)
  \/ Reset
  \/ \E p \in FamilyUpdates : UpdateParameters(p)

SpecFamily == FamilyInit /\ [][FamilyNext]_vars

\* C28: the elements use the fields of the descriptor's own family only: for
\* orbitType LEO the right ascension of the ascending node and the mean anomaly
\* are 0, for orbitType Polar the argument of periapsis (and the eccentricity)
\* is 0, whatever the descriptor holds in those fields; the fields of the family
\* the merged descriptor names are the ones taken, also after an update changed
\* the orbitType.
C28_OwnFamilyOnly ==
  /\ sim.satellite = MergedDescriptor
  /\ sim.satellite["orbitType"] = "LEO" =>
       /\ sim.orbitalElements.rightAscensionOfAscendingNode = 0
       /\ sim.orbitalElements.meanAnomaly = 0
       /\ sim.orbitalElements.argumentOfPeriapsis =
            ToRadians(OrDefault(sim.satellite, "argumentOfPeriapsis", 0))
  /\ sim.satellite["orbitType"] = "Polar" =>
       /\ sim.orbitalElements.argumentOfPeriapsis = 0
       /\ sim.orbitalElements.eccentricity = 0
       /\ sim.orbitalElements.rightAscensionOfAscendingNode =
            ToRadians(OrDefault(sim.satellite, "rightAscensionOfAscendingNode", 0))
       /\ sim.orbitalElements.meanAnomaly =
            ToRadians(OrDefault(sim.satellite, "meanAnomaly", 0))

\* a LEO propagator whose descriptor holds all four fields, after an update to
\* orbitType Polar
C28_Witness ==
  /\ constructed = MixedLeo
  /\ applied = <<[orbitType |-> "Polar"]>>
  /\ lastOp = "updateSatellite"
  /\ sim.satellite["argumentOfPeriapsis"] = 30 * DEG
  /\ sim.orbitalElements.argumentOfPeriapsis = 0
  /\ sim.orbitalElements.eccentricity = 0
  /\ sim.orbitalElements.rightAscensionOfAscendingNode = ToRadians(45 * DEG)
  /\ sim.orbitalElements.rightAscensionOfAscendingNode > 0
  /\ sim.orbitalElements.meanAnomaly > 0

(***************************************************************************)
(* generateSuggestedAction on conjunctions of every risk tier and distance *)
(* in time                                                                 *)
(***************************************************************************)
RiskTiers == {"low", "medium", "high"}
\* hours from now to the closest approach, on both sides of 24 h and 72 h
HoursToTca == {0, 1, 6, 12, 23, 24, 25, 36, 48, 60, 71, 72, 73, 96, 168}

\* conjunctionData.map(c => ({ ...c, suggestedAction: generateSuggestedAction(c) }))
\* for two conjunctions due at the same time, and setConjunctions
SuggestActions(first, second, hours) ==
  /\ conjunctions' =
       << Enhanced(ConjunctionOf("25544", first, hours), now),
          Enhanced(ConjunctionOf("25544", second, hours), now) >>
  /\ lastRun' = [outcome |-> "suggested"]
  /\ UNCHANGED <<propagatorVars, kepler, stable, objects, calls, hook, listVars,
                 alerts, spaceWeatherAlerts, threatAssessments, isOfflineMode,
                 pending, now, nRuns>>

\* one call, on a hook that has not run yet
SuggestNext ==
  /\ lastRun.outcome = "none"
  /\ \E first \in RiskTiers, second \in RiskTiers, hours \in HoursToTca :
       SuggestActions(first, second, hours)

SpecSuggest == MonitorInit /\ [][SuggestNext]_vars

RiskOrder(risk) ==
  CASE risk = "high" -> 3
    [] risk = "medium" -> 2
    [] OTHER -> 1

\* C29: of two conjunctions with the same time to closest approach, the one
\* with the higher risk tier never gets a suggested action of lower priority.
C29_MonotoneInRisk ==
  \A i, j \in 1..Len(conjunctions) :
    (conjunctions[i].tca = conjunctions[j].tca
       /\ RiskOrder(conjunctions[i].risk) > RiskOrder(conjunctions[j].risk))
      => PriorityOrder(conjunctions[i].suggestedAction.priority)
           >= PriorityOrder(conjunctions[j].suggestedAction.priority)

====
